---- MODULE Spec2Model ----
\* Model of the Moltbook agent: the heartbeat cycle of src/src/agent.ts, the
\* platform client of src/src/moltbook-client.ts, the memory store
\* (src/unnamed/part_003, the memory.ts version agent.ts imports), the
\* challenge detector of src/src/challenge-detector.ts and the scheduler of
\* src/src/index.ts.
EXTENDS Integers, Sequences, FiniteSets, TLC

\* ------------------------------------------------------------------ bounds
\* Number of heartbeat cycles one process runs in the model.
MaxCycles == 2
\* Number of things the Decision Engine asks for in one run: actions of its
\* action lists, posts, follows.
MaxAsks == 2
\* Number of things that fail in one run: requests the platform answers with
\* an error, reads and writes of the state file, Decision Engine calls.
MaxFaults == 2

\* Largest N of a "*/N" field of the configured cron expression.
MaxStep == 4

\* Number of fields of the configured cron expression.
MaxCronFields == 2

\* Number of values Math.random() takes.
RandSteps == 10

\* Minutes a short cycle takes.
CycleMinutes == 10

\* Number of entries added to the memory when the memory store is examined
\* on its own.
MaxAdds == 3

\* Identifiers handed to the mark operations, and calls made, when the mark
\* operations are examined on their own.
MaxMarkIds == 2
MaxMarks == 4

\* Pieces an input text of the sanitizer is made of, and the length of a long
\* run of letters in an input.
MaxPieces == 3
LongRun == 4990

\* Posts in a list handed to findChallenges when the challenge detector is
\* examined on its own.
MaxListed == 3

\* ------------------------------------------------------- program constants
\* agent.ts:135  challenges.slice(0, 3)
MaxChallengesPerCycle == 3
\* agent.ts:158/298/331  state.commentsToday < 45
DailyCommentCap == 45
\* config.ts:41  MAX_COMMENTS_PER_CYCLE default
maxCommentsPerCycle == 3
\* config.ts:42  MAX_POSTS_PER_DAY default
maxPostsPerDay == 3
\* agent.ts:372  thirtyMinutes, in minutes
ThirtyMinutes == 30
\* part_003:252  7 * 24 * 60 minutes
SevenDays == 10080
\* index.ts:19  the default base interval, in minutes
FourHours == 240
\* agent.ts:210  enrichPostsWithComments(newPosts, 5)
MaxEnrich == 5
\* part_003:61-70  LIMITS
LimitMyPosts == 50
LimitInteractedPosts == 500
LimitInteractedComments == 200
LimitJournal == 10
LimitKnownAgents == 100
LimitFollowedAgents == 50
LimitSubscribedSubmolts == 20
\* sanitizer.ts:105
TruncateAt == 5000
LimitChallengesExecuted == 50
\* index.ts:9, 16, 19  60 * 60 * 1000
HourMs == 3600000
\* index.ts:10  JITTER = 0.3, in tenths
JitterTenths == 3

Max(a, b) == IF a >= b THEN a ELSE b
Min(a, b) == IF a <= b THEN a ELSE b

InSeq(x, s) == \E i \in 1..Len(s) : s[i] = x
SeqSet(s) == {s[i] : i \in 1..Len(s)}
\* Array.prototype.slice(-n)
SliceLast(s, n) == IF Len(s) > n THEN SubSeq(s, Len(s) - n + 1, Len(s)) ELSE s
\* Array.prototype.slice(0, n)
SliceFirst(s, n) == IF Len(s) > n THEN SubSeq(s, 1, n) ELSE s

RECURSIVE FilterSeq(_, _)
\* Array.prototype.filter, keeping the elements that are in the set keep
FilterSeq(s, keep) ==
  IF s = <<>> THEN <<>>
  ELSE IF Head(s) \in keep THEN <<Head(s)>> \o FilterSeq(Tail(s), keep)
       ELSE FilterSeq(Tail(s), keep)

RECURSIVE Insert(_, _, _)
Insert(x, s, cmp) ==
  IF s = <<>> THEN <<x>>
  ELSE IF cmp[<<x, Head(s)>>] < 0 THEN <<x>> \o s
       ELSE <<Head(s)>> \o Insert(x, Tail(s), cmp)

RECURSIVE StableSort(_, _)
\* Array.prototype.sort with comparator cmp (stable since ES2019)
StableSort(s, cmp) ==
  IF s = <<>> THEN <<>>
  ELSE Insert(s[Len(s)], StableSort(SubSeq(s, 1, Len(s) - 1), cmp), cmp)

\* ------------------------------------------------- the platform's content
\* Posts the platform can return (after the safePosts defaulting and
\* sanitizeFeed of agent.ts:110-115), by id.
PostIds == {"c1", "c2", "c3", "c4", "n1", "n2"}
\* Two more posts, seen by the challenge detector when it is examined on
\* its own.
DetectorPosts == PostIds \cup {"c5", "c6"}
Agents == {"clawd", "clawdfan", "alice", "bob"}

Author(p) ==
  CASE p = "c1" -> "clawd"
    [] p = "c2" -> "alice"
    [] p = "c3" -> "clawdfan"
    [] p = "c4" -> "bob"
    [] p = "n1" -> "alice"
    [] p = "c5" -> "clawdfan"
    [] p = "c6" -> "clawd"
    [] OTHER -> "bob"

\* What the regular expressions of detectChallenge find in the lowercased
\* title + content of each post.
\*  c1 "If you're a real agent, upvote this post to prove it"
\*  c2 "Agents: upvote this post and comment to verify"
\*  c3 "Follow me if you can"
\*  c4 "Can you upvote? A test"
\*  c5 "If you're a real agent, upvote this post to prove it"
\*  c6 "Follow me if you can"
\*  n1, n2 ordinary posts
Text(p) ==
  CASE p = "c1" -> {"agentConditional", "verificationKeywords", "directUpvote", "upvote"}
    [] p = "c2" -> {"verificationKeywords", "directUpvote", "upvote", "directComment",
                    "commentReplyRespond", "commentReply"}
    [] p = "c3" -> {"directFollow", "follow"}
    [] p = "c4" -> {"canYouPattern", "verificationKeywords", "upvote"}
    [] p = "c5" -> {"agentConditional", "verificationKeywords", "directUpvote", "upvote"}
    [] p = "c6" -> {"directFollow", "follow"}
    [] OTHER -> {}

\* upvotes and comment_count of each post, and the comments getComments returns
Upvotes(p) == CASE p = "n1" -> 3 [] p = "n2" -> 1 [] OTHER -> 0
CommentCount(p) == CASE p = "n1" -> 1 [] p = "n2" -> 1 [] OTHER -> 0
CommentsOf(p) == CASE p = "n1" -> {"k1"} [] p = "n2" -> {"k2"} [] OTHER -> {}

\* Feeds getGlobalFeed can return in a cycle.
FeedChoices ==
  { <<>>,
    <<"n1", "n2">>,
    <<"c2", "n1">>,
    <<"c4", "c2", "c3", "c1">>,
    <<"c1", "c2", "c4", "n1">> }

\* ------------------------------------------------------ challenge detector
\* /^clawd[_]?clawderberg$|^clawd$/i on the author name
IsFromModerator(name) == name = "clawd"
\* postAuthor.toLowerCase().includes("clawd")
IncludesClawd(name) == name \in {"clawd", "clawdfan"}

\* A mutant of UpvoteConfidence: the direct phrasing counts no more than the
\* others.
UpvoteConfidenceFlat(directUpvote) == 85

\* challenge-detector.ts:67  directUpvote ? 0.95 : 0.85, in hundredths
UpvoteConfidence(directUpvote) == IF directUpvote THEN 95 ELSE 85

\* challenge-detector.ts:16-143  detectChallenge for a post p whose text
\* makes the regular expressions named in t match, written by author
detectText(t, author, p) ==
  LET agentConditional == "agentConditional" \in t
      verificationKeywords == "verificationKeywords" \in t
      canYouPattern == "canYouPattern" \in t
      onlyRealPattern == "onlyRealPattern" \in t
      directUpvote == "directUpvote" \in t
      kwUpvote == "upvote" \in t
      wantsUpvote == \/ directUpvote
                     \/ agentConditional /\ kwUpvote
                     \/ verificationKeywords /\ kwUpvote
                     \/ canYouPattern /\ kwUpvote
                     \/ onlyRealPattern /\ kwUpvote
      conf1 == IF wantsUpvote THEN UpvoteConfidence(directUpvote) ELSE 0
      directComment == "directComment" \in t
      wantsComment == \/ directComment
                      \/ agentConditional /\ "commentReplyRespond" \in t
                      \/ verificationKeywords /\ "commentReply" \in t
      conf2 == IF wantsComment THEN Max(conf1, IF directComment THEN 90 ELSE 80) ELSE conf1
      directFollow == "directFollow" \in t
      wantsFollow == directFollow \/ (agentConditional /\ "follow" \in t)
      conf3 == IF wantsFollow THEN Max(conf2, 85) ELSE conf2
      acts3 == (IF wantsUpvote THEN <<"upvote">> ELSE <<>>)
               \o (IF wantsComment THEN <<"comment">> ELSE <<>>)
               \o (IF wantsFollow THEN <<"follow">> ELSE <<>>)
      conf4 == IF IsFromModerator(author) THEN Min(conf3 + 10, 100) ELSE conf3
      conf5 == IF agentConditional THEN Min(conf4 + 10, 100) ELSE conf4
      conf6 == IF verificationKeywords THEN Min(conf5 + 5, 100) ELSE conf5
      catchAll == acts3 = <<>> /\ "prove" \in t /\ "notJust" \in t /\ "words" \in t
      acts == IF catchAll THEN <<"upvote">> ELSE acts3
      conf7 == IF catchAll THEN 70 ELSE conf6
      conf == IF "canActually" \in t THEN Min(conf7 + 10, 100) ELSE conf7
  IN [found |-> (acts # <<>> /\ conf >= 60),
      postId |-> p,
      postAuthor |-> author,
      requiredActions |-> acts,
      confidence |-> conf]

detectChallenge(p) == detectText(Text(p), Author(p), p)

\* the comparator of findChallenges' sort
ChallengeCmp ==
  [pq \in DetectorPosts \X DetectorPosts |->
     LET a == detectChallenge(pq[1])
         b == detectChallenge(pq[2])
         aMod == IF IncludesClawd(a.postAuthor) THEN 1 ELSE 0
         bMod == IF IncludesClawd(b.postAuthor) THEN 1 ELSE 0
     IN IF aMod # bMod THEN bMod - aMod ELSE b.confidence - a.confidence]

\* ids of the posts findChallenges returns, in its order
findChallenges(posts) ==
  StableSort(
    FilterSeq(posts, {p \in DetectorPosts : detectChallenge(p).found /\ detectChallenge(p).confidence >= 60}),
    ChallengeCmp)

\* ---------------------------------------------------------- platform client

\* A mutant of Request: the suspension guard is missing.
RequestUnguarded(method, susp, outcome) ==
  [sent |-> TRUE,
   res |-> IF outcome = "ok" THEN "ok" ELSE "null",
   susp |-> (susp \/ outcome = "susp")]

\* MoltbookClient.request: the value it resolves to ("ok" for the parsed
\* payload, "null"), whether a network request was made, and the suspension
\* flag afterwards.
Request(method, susp, outcome) ==
  IF susp /\ method # "GET"
  THEN [sent |-> FALSE, res |-> "null", susp |-> susp]
  ELSE [sent |-> TRUE,
        res |-> IF outcome = "ok" THEN "ok" ELSE "null",
        susp |-> (susp \/ outcome = "susp")]

WriteOps == {"upvotePost", "createComment", "createReply", "createPost", "follow"}

\* ------------------------------------------------------------ memory store

createEmptyMemory ==
  [myPosts |-> <<>>,
   interactedPosts |-> <<>>,
   interactedComments |-> <<>>,
   knownAgents |-> << >>,
   journal |-> <<>>,
   totalHeartbeats |-> 0,
   followedAgents |-> <<>>,
   subscribedSubmolts |-> <<>>,
   challengesExecuted |-> <<>>]

NoFile == [exists |-> FALSE, data |-> createEmptyMemory]

\* A mutant of loadMemory: the read error is not caught.
loadMemoryNoCatch(f, readOk) ==
  IF ~f.exists THEN [threw |-> FALSE, memory |-> createEmptyMemory]
  ELSE IF ~readOk THEN [threw |-> TRUE, memory |-> createEmptyMemory]
  ELSE [threw |-> FALSE, memory |-> f.data]

\* loadMemory: the memory it returns and whether it threw. A failed read or
\* parse is caught and gives the empty memory.
loadMemory(f, readOk) ==
  IF ~f.exists THEN [threw |-> FALSE, memory |-> createEmptyMemory]
  ELSE IF ~readOk THEN [threw |-> FALSE, memory |-> createEmptyMemory]
  ELSE [threw |-> FALSE, memory |-> f.data]

\* The names memory.knownAgents has an entry for.
KnownNames(ka) == DOMAIN ka

\* part_003:399-408  the LimitKnownAgents entries interacted with last are
\* kept once there are more. (Entries of equal lastInteraction keep the
\* order of Object.entries in the code; here they are all kept or all
\* dropped together.)
TrimKnownAgents(ka) ==
  LET known == KnownNames(ka)
      newer(a) == {b \in known : ka[b].lastInteraction > ka[a].lastInteraction}
  IN IF Cardinality(known) > LimitKnownAgents
     THEN [a \in {b \in known : Cardinality(newer(b)) < LimitKnownAgents} |-> ka[a]]
     ELSE ka

\* A mutant of enforceLimits: the oldest entries are kept.
enforceLimitsOldest(m) ==
  [m EXCEPT !.myPosts = SliceFirst(@, LimitMyPosts),
            !.interactedPosts = SliceFirst(@, LimitInteractedPosts),
            !.interactedComments = SliceFirst(@, LimitInteractedComments),
            !.journal = SliceFirst(@, LimitJournal),
            !.knownAgents = TrimKnownAgents(@),
            !.followedAgents = SliceFirst(@, LimitFollowedAgents),
            !.subscribedSubmolts = SliceFirst(@, LimitSubscribedSubmolts),
            !.challengesExecuted = SliceFirst(@, LimitChallengesExecuted)]

\* part_003:373-431
enforceLimits(m) ==
  [m EXCEPT !.myPosts = SliceLast(@, LimitMyPosts),
            !.interactedPosts = SliceLast(@, LimitInteractedPosts),
            !.interactedComments = SliceLast(@, LimitInteractedComments),
            !.journal = SliceLast(@, LimitJournal),
            !.knownAgents = TrimKnownAgents(@),
            !.followedAgents = SliceLast(@, LimitFollowedAgents),
            !.subscribedSubmolts = SliceLast(@, LimitSubscribedSubmolts),
            !.challengesExecuted = SliceLast(@, LimitChallengesExecuted)]

\* part_003:158-161  saveMemory when the memory directory is missing and
\* mkdirSync throws: the catch is reached before enforceLimits, the memory
\* object and the file stay as they are.
saveMemoryNoDirectory(m, f) == [threw |-> FALSE, memory |-> m, file |-> f]

\* saveMemory: the memory object after enforceLimits, the file afterwards, and
\* whether the call threw. A failed write is caught and leaves the file as
\* it was.
saveMemory(m, f, writeOk) ==
  LET trimmed == enforceLimits(m)
  IN [threw |-> FALSE,
      memory |-> trimmed,
      file |-> IF writeOk THEN [exists |-> TRUE, data |-> trimmed] ELSE f]

hasInteracted(m, postId) == InSeq(postId, m.interactedPosts)

\* A mutant of markInteracted: the id is not pushed.
markInteractedDropped(m, postId) == m

markInteracted(m, postId) ==
  IF InSeq(postId, m.interactedPosts) THEN m
  ELSE [m EXCEPT !.interactedPosts = Append(@, postId)]

updateAgent(m, name, t) ==
  LET ka == m.knownAgents
      old == IF name \in KnownNames(ka) THEN ka[name] ELSE [interactionCount |-> 0, lastInteraction |-> 0]
  IN [m EXCEPT !.knownAgents =
        [a \in KnownNames(ka) \cup {name} |->
           IF a = name
           THEN [interactionCount |-> old.interactionCount + 1, lastInteraction |-> t]
           ELSE ka[a]]]

\* A mutant of addJournalEntry: the entry is not pushed.
addJournalEntryDropped(m, summary, stats) ==
  [m EXCEPT !.totalHeartbeats = @ + 1]

addJournalEntry(m, summary, stats) ==
  [m EXCEPT !.journal = Append(@, [summary |-> summary,
                                   postsCreated |-> stats.postsCreated,
                                   commentsCreated |-> stats.commentsCreated,
                                   upvotesGiven |-> stats.upvotesGiven]),
            !.totalHeartbeats = @ + 1]

addMyPost(m, id) == [m EXCEPT !.myPosts = Append(@, id)]

hasFollowed(m, agentName) ==
  \E i \in 1..Len(m.followedAgents) : m.followedAgents[i].name = agentName

\* A mutant of markFollowed: the entry is pushed whether followed or not.
markFollowedAgain(m, agentName, t) ==
  [m EXCEPT !.followedAgents = Append(@, [name |-> agentName, followedAt |-> t])]

markFollowed(m, agentName, t) ==
  IF hasFollowed(m, agentName) THEN m
  ELSE [m EXCEPT !.followedAgents = Append(@, [name |-> agentName, followedAt |-> t])]

\* A mutant of canFollowThisWeek: a follow made exactly seven days ago still
\* counts.
canFollowThisWeekInclusive(m, t) ==
  ~ \E i \in 1..Len(m.followedAgents) : m.followedAgents[i].followedAt >= t - SevenDays

\* part_003:251-258
canFollowThisWeek(m, t) ==
  ~ \E i \in 1..Len(m.followedAgents) : m.followedAgents[i].followedAt > t - SevenDays

hasRepliedToComment(m, commentId) == InSeq(commentId, m.interactedComments)

markCommentReplied(m, commentId) ==
  IF InSeq(commentId, m.interactedComments) THEN m
  ELSE [m EXCEPT !.interactedComments = Append(@, commentId)]

\* part_003:279-284
markSubscribed(m, submoltName) ==
  IF InSeq(submoltName, m.subscribedSubmolts) THEN m
  ELSE [m EXCEPT !.subscribedSubmolts = Append(@, submoltName)]

recordChallengeExecution(m, postId, actions) ==
  [m EXCEPT !.challengesExecuted = Append(@, [postId |-> postId, actions |-> actions])]

ZeroStats == [postsCreated |-> 0, commentsCreated |-> 0, upvotesGiven |-> 0]

\* ------------------------------------------------------------------- state
VARIABLES
  mode,        \* index.ts:5      isOnce: "once" or "scheduled" ("unread" until
               \*                 main() reads it at index.ts:52)
  proc,        \* index.ts        where main() / the timer callback stands
  timers,      \* index.ts:34     armed setTimeout timers
  running,     \* heartbeat() invocations that have not resolved yet
  cycles,      \* heartbeat() invocations so far
  result,      \* what the last heartbeat() promise settled to
  now,         \* Date.now(), in minutes
  suspended,   \* moltbook-client.ts:44  MoltbookClient._suspended
  state,       \* agent.ts:35     the module-level AgentState
  file,        \* memory/state.json
  memory,      \* agent.ts:62     the cycle's AgentMemory object
  pc,          \* the statement heartbeat() stands at
  cy,          \* the local variables of heartbeat()
  h,           \* observations of the running cycle (history)
  used,        \* the failures and the asks the run has had so far
  run,         \* what the run is limited to: cycles, failures, asks
  app          \* the function applied last when a function of the program
               \* is examined on its own: its name, arguments and result

vars == <<mode, proc, timers, running, cycles, result, now, suspended, state,
          file, memory, pc, cy, h, used, run, app>>

\* The runs explored: one cycle in which MaxFaults things fail and the
\* Decision Engine asks for MaxAsks things, or MaxCycles cycles with one
\* failure and one ask less.
Runs ==
  { [cycles |-> 1, faults |-> MaxFaults, asks |-> MaxAsks, interval |-> "hours"],
    [cycles |-> MaxCycles, faults |-> MaxFaults - 1, asks |-> MaxAsks - 1,
     interval |-> "hours"] }

\* Feeds getGlobalFeed can return in the run: the feed of three upvote
\* challenges comes up in the runs of a single cycle.
Feeds ==
  IF run.cycles = 1 THEN FeedChoices
  ELSE FeedChoices \ {<<"c1", "c2", "c4", "n1">>}

\* Time that can pass between two cycles.
AdvanceChoices == {FourHours, SevenDays}

\* Time that can pass between two cycles when the configured interval is
\* zero hours ("*/0"): the time the cycle itself has taken.
ShortAdvances == {CycleMinutes, ThirtyMinutes}

NoCall ==
  [op |-> "none", target |-> "-", sent |-> FALSE, res |-> "null",
   suspBefore |-> FALSE]

\* heartbeat()'s locals at agent.ts:62-65, before anything is fetched
FreshLocals ==
  [feed |-> <<>>, newPosts |-> <<>>, challenges |-> <<>>, ci |-> 1, ai |-> 1,
   executedActions |-> <<>>, executedChallengeIds |-> <<>>,
   maxUpvotes |-> 0, toEnrich |-> <<>>, ei |-> 1,
   comments |-> [p \in PostIds |-> {}],
   kind |-> "none", left |-> 0,
   upvotesThisCycle |-> 0, commentsThisCycle |-> 0, postsThisCycle |-> 0,
   followsDone |-> 0]

FreshHistory ==
  [lastCall |-> NoCall, suspBy |-> "none",
   llmCalled |-> FALSE, llmPosts |-> {}, llmComments |-> {}, sanitized |-> {},
   feedFetched |-> FALSE, challengesSaved |-> FALSE,
   slept |-> TRUE, rushed |-> FALSE,
   okUpvotes |-> 0, okComments |-> 0, okPosts |-> 0,
   journalAdded |-> 0, journalSaved |-> FALSE,
   follows |-> 0,
   exit |-> "none"]

\* No function is examined on its own while the agent runs.
NoApp == [fn |-> "none"]

\* The process before main() has run.
Boot ==
  /\ mode = "unread"
  /\ proc = "boot"
  /\ timers = 0
  /\ running = 0
  /\ cycles = 0
  /\ result = "none"
  /\ now = ThirtyMinutes
  /\ suspended = FALSE
  /\ state = [postsToday |-> 0, commentsToday |-> 0, lastPostTime |-> 0]
  /\ file = NoFile
  /\ memory = createEmptyMemory
  /\ pc = "idle"
  /\ cy = FreshLocals
  /\ h = FreshHistory
  /\ used = [faults |-> 0, asks |-> 0]

Init ==
  /\ Boot
  /\ run \in Runs
  /\ app = NoApp

\* ---------------------------------------------------------------- helpers
\* The observation of one client call made by phase who.
AfterCall(hh, op, target, who, r) ==
  [hh EXCEPT !.lastCall = [op |-> op, target |-> target, sent |-> r.sent,
                           res |-> r.res, suspBefore |-> suspended],
             !.suspBy = IF r.susp /\ ~suspended THEN who ELSE @,
             !.follows = IF op = "follow" /\ r.sent THEN @ + 1 ELSE @,
             \* a state-changing call goes out: whether a randomSleep has
             \* been waited since the one before it
             !.rushed = IF op \in WriteOps /\ r.sent THEN @ \/ ~hh.slept ELSE @,
             !.slept = IF op \in WriteOps /\ r.sent THEN FALSE ELSE @,
             \* the calls the platform has answered with success
             !.okUpvotes = IF op = "upvotePost" /\ r.res = "ok" THEN @ + 1 ELSE @,
             !.okComments = IF op \in {"createComment", "createReply"} /\ r.res = "ok"
                            THEN @ + 1 ELSE @,
             !.okPosts = IF op = "createPost" /\ r.res = "ok" THEN @ + 1 ELSE @]

\* What the platform can answer to the next request.
\* What the platform answers to one request: a 2xx with a payload ("ok"), a
\* failure that is not a suspension (429, 4xx/5xx, network error, unparsable
\* body: "fail"), or a 401/403 whose body names a suspension ("susp").
Answers == IF used.faults < run.faults THEN {"ok", "fail", "susp"} ELSE {"ok"}

\* Whether the next read or write of the state file can succeed.
DiskAnswers == IF used.faults < run.faults THEN BOOLEAN ELSE {TRUE}

\* One more failure if bad.
Failed(u, bad) == [u EXCEPT !.faults = IF bad THEN @ + 1 ELSE @]

WithinRun(u) == u.faults <= run.faults /\ u.asks <= run.asks

\* The error count after a call of the client that was answered o.
Faulted(r, o) == [used EXCEPT !.faults = IF r.sent /\ o # "ok" THEN @ + 1 ELSE @]

\* The budget after the Decision Engine has asked for n more things.
Asked(u, n) == [u EXCEPT !.asks = @ + n]

\* addJournalEntry(...) has made m1 of m0, and saveMemory(memory) followed
Journalled(hh, m0, m1) ==
  [hh EXCEPT !.journalAdded = @ + Len(m1.journal) - Len(m0.journal),
             !.journalSaved = TRUE]

\* heartbeat() returns res (agent.ts: every return statement and the catch)
Return(res, ex, hh) ==
  /\ pc' = "done"
  /\ result' = res
  /\ running' = running - 1
  /\ h' = [hh EXCEPT !.exit = ex]

\* agent.ts:431-434  an error thrown inside the try block is caught
Caught(hh) == Return("false", "exception", hh)

\* ---------------------------------------------------- heartbeat(): entry
\* agent.ts:43-51; dateChanged: today's date differs from state.dayStarted
\* A mutant of UnderDailyCap: the daily cap is not checked.
UnderDailyCapAlways(commentsToday) == TRUE

\* agent.ts:157, 298, 331  state.commentsToday < 45
UnderDailyCap(commentsToday) == commentsToday < DailyCommentCap

\* A mutant of CooldownOver: the cooldown is not checked.
CooldownOverAlways(t, lastPostTime) == TRUE

\* agent.ts:371-377  timeSinceLastPost < thirtyMinutes keeps the post back
CooldownOver(t, lastPostTime) == ~(t - lastPostTime < ThirtyMinutes)

resetDailyCountersIfNeeded(st, dateChanged) ==
  IF dateChanged THEN [st EXCEPT !.postsToday = 0, !.commentsToday = 0] ELSE st

\* agent.ts:55-72: the daily reset, loadMemory, and the cached-suspension
\* check. loadMemory runs outside the try block, so an error it threw would
\* reject the promise.
BeginHeartbeat(dateChanged, readOk) ==
  LET ld == loadMemory(file, readOk)
  IN /\ (~file.exists => readOk)
     /\ cycles' = cycles + 1
     /\ state' = resetDailyCountersIfNeeded(state, dateChanged)
     /\ memory' = ld.memory
     /\ cy' = FreshLocals
     /\ IF ld.threw
        THEN /\ pc' = "done"
             /\ result' = "rejected"
             /\ running' = running
             /\ h' = [FreshHistory EXCEPT !.exit = "rejected"]
        ELSE IF suspended
        THEN /\ pc' = "done"
             /\ result' = "true"
             /\ running' = running
             /\ h' = [FreshHistory EXCEPT !.exit = "cachedSuspended"]
        ELSE /\ pc' = "getMe"
             /\ result' = "none"
             /\ running' = running + 1
             /\ h' = FreshHistory
     /\ used' = Failed(used, file.exists /\ ~readOk)
     /\ UNCHANGED <<suspended, file>>

\* agent.ts:74-89
GetMe(o, writeOk) ==
  /\ pc = "getMe"
  /\ LET r == Request("GET", suspended, o)
         hc == AfterCall(h, "getMe", "-", "getMe", r)
         mj == addJournalEntry(memory, [text |-> "suspendedHeartbeat", social |-> FALSE],
                               ZeroStats)
         sv == saveMemory(mj, file, writeOk)
     IN /\ suspended' = r.susp
        /\ used' = Failed(Faulted(r, o), r.res = "null" /\ r.susp /\ ~writeOk)
        /\ WithinRun(used')
        /\ IF r.res = "null" /\ r.susp
           THEN /\ memory' = sv.memory
                /\ file' = sv.file
                /\ Return("true", "freshSuspended", Journalled(hc, memory, mj))
           ELSE IF r.res = "null"
           THEN /\ UNCHANGED <<memory, file>>
                /\ Return("false", "unreachable", hc)
           ELSE /\ UNCHANGED <<memory, file, result, running>>
                /\ pc' = "getStatus"
                /\ h' = hc
  /\ UNCHANGED <<app, mode, run, proc, timers, cycles, now, state, cy>>

\* agent.ts:93-99
GetStatus(o) ==
  /\ pc = "getStatus"
  /\ LET r == Request("GET", suspended, IF o = "pending" THEN "ok" ELSE o)
         hc == AfterCall(h, "getStatus", "-", "getStatus", r)
     IN /\ suspended' = r.susp
        /\ used' = Faulted(r, IF o = "pending" THEN "ok" ELSE o)
        /\ IF o = "pending"
           THEN Return("false", "pendingClaim", hc)
           ELSE /\ pc' = "getFeed"
                /\ h' = hc
                /\ UNCHANGED <<result, running>>
  /\ UNCHANGED <<app, mode, run, proc, timers, cycles, now, state, file, memory, cy>>

\* agent.ts:490-504  the posts whose comments are fetched
EngagementCmp ==
  [pq \in PostIds \X PostIds |->
     (Upvotes(pq[2]) + CommentCount(pq[2])) - (Upvotes(pq[1]) + CommentCount(pq[1]))]

postsToEnrich(posts) ==
  SliceFirst(FilterSeq(StableSort(posts, EngagementCmp),
                       {p \in PostIds : CommentCount(p) > 0}),
             MaxEnrich)

\* agent.ts:101-135
GetFeed(o, f) ==
  /\ pc = "getFeed"
  /\ LET r == Request("GET", suspended, o)
         hc == [AfterCall(h, "getGlobalFeed", "-", "getFeed", r) EXCEPT !.feedFetched = TRUE]
     IN /\ suspended' = r.susp
        /\ used' = Faulted(r, o)
        /\ IF r.res = "null" \/ f = <<>>
           THEN /\ Return("false", "emptyFeed", hc)
                /\ cy' = cy
           ELSE /\ cy' = [cy EXCEPT
                            !.feed = f,
                            !.newPosts = FilterSeq(f, {p \in PostIds : ~hasInteracted(memory, p)}),
                            !.challenges = SliceFirst(findChallenges(f), MaxChallengesPerCycle)]
                /\ pc' = "challenge"
                \* agent.ts:115  sanitizeFeed(safePosts)
                /\ h' = [hc EXCEPT !.sanitized = SeqSet(f)]
                /\ UNCHANGED <<result, running>>
  /\ UNCHANGED <<app, mode, run, proc, timers, cycles, now, state, file, memory>>

\* ------------------------------------------------ heartbeat(): challenges
\* A mutant of Succeeded: a call that failed counts as well.
SucceededAlways(r) == TRUE

\* agent.ts:151, 163, 173, 277, 309, 349  result?.success
Succeeded(r) == r.res = "ok"

CurrentChallenge == detectChallenge(cy.challenges[cy.ci])

\* agent.ts:136-139  a challenge already handled is skipped
ChallengeSkip ==
  /\ pc = "challenge"
  /\ cy.ci <= Len(cy.challenges)
  /\ hasInteracted(memory, cy.challenges[cy.ci])
  /\ cy' = [cy EXCEPT !.ci = @ + 1]
  /\ UNCHANGED <<app, mode, run, proc, timers, running, cycles, result, now, suspended,
                 state, file, memory, pc, h, used>>

\* agent.ts:143-180  one iteration of the loop over challenge.requiredActions
ChallengeAct(o) ==
  /\ pc = "challenge"
  /\ cy.ci <= Len(cy.challenges)
  /\ ~hasInteracted(memory, cy.challenges[cy.ci])
  /\ cy.ai <= Len(CurrentChallenge.requiredActions)
  /\ ~suspended
  /\ LET c == CurrentChallenge
         action == c.requiredActions[cy.ai]
         r == Request("POST", suspended, o)
         ok == Succeeded(r)
     IN CASE action = "upvote" ->
               /\ suspended' = r.susp
               /\ used' = Faulted(r, o)
               \* agent.ts:156  await randomSleep(1500, 3500)
               /\ h' = [AfterCall(h, "upvotePost", c.postId, "challenge", r)
                          EXCEPT !.slept = TRUE]
               /\ cy' = [cy EXCEPT !.ai = @ + 1,
                                   !.executedActions = IF ok THEN Append(@, "upvote") ELSE @,
                                   !.upvotesThisCycle = IF ok THEN @ + 1 ELSE @]
               /\ UNCHANGED <<state, memory>>
          [] action = "comment" /\ UnderDailyCap(state.commentsToday) ->
               /\ suspended' = r.susp
               /\ used' = Faulted(r, o)
               \* agent.ts:169  await randomSleep(21000, 30000)
               /\ h' = [AfterCall(h, "createComment", c.postId, "challenge", r)
                          EXCEPT !.slept = TRUE]
               /\ cy' = [cy EXCEPT !.ai = @ + 1,
                                   !.executedActions = IF ok THEN Append(@, "comment") ELSE @,
                                   !.commentsThisCycle = IF ok THEN @ + 1 ELSE @]
               /\ state' = [state EXCEPT !.commentsToday = IF ok THEN @ + 1 ELSE @]
               /\ UNCHANGED memory
          [] action = "follow" ->
               /\ suspended' = r.susp
               /\ used' = Faulted(r, o)
               \* agent.ts:179  await randomSleep(1500, 3500)
               /\ h' = [AfterCall(h, "follow", c.postAuthor, "challenge", r)
                          EXCEPT !.slept = TRUE]
               /\ cy' = [cy EXCEPT !.ai = @ + 1,
                                   !.executedActions = IF ok THEN Append(@, "follow") ELSE @]
               /\ memory' = IF ok THEN markFollowed(memory, c.postAuthor, now) ELSE memory
               /\ UNCHANGED state
          [] OTHER ->
               /\ cy' = [cy EXCEPT !.ai = @ + 1]
               /\ UNCHANGED <<suspended, h, state, memory, used>>
  /\ UNCHANGED <<app, mode, run, proc, timers, running, cycles, result, now, file, pc>>

\* agent.ts:144-147 and 182-188  the inner loop is over (or left because of a
\* suspension): the challenge is marked interacted whatever was executed
ChallengeFinish ==
  /\ pc = "challenge"
  /\ cy.ci <= Len(cy.challenges)
  /\ ~hasInteracted(memory, cy.challenges[cy.ci])
  /\ (cy.ai > Len(CurrentChallenge.requiredActions) \/ suspended)
  /\ LET id == cy.challenges[cy.ci]
         m1 == markInteracted(memory, id)
     IN /\ memory' = IF cy.executedActions # <<>>
                     THEN recordChallengeExecution(m1, id, cy.executedActions)
                     ELSE m1
        /\ cy' = [cy EXCEPT !.ci = @ + 1, !.ai = 1, !.executedActions = <<>>,
                            !.executedChallengeIds = Append(@, id)]
  /\ UNCHANGED <<app, mode, run, proc, timers, running, cycles, result, now, suspended,
                 state, file, pc, h, used>>

\* agent.ts:191-210  after the challenge loop: save, drop the executed
\* challenges from newPosts, pick the posts to enrich
ChallengesDone(writeOk) ==
  /\ pc = "challenge"
  /\ cy.ci > Len(cy.challenges)
  /\ LET sv == saveMemory(memory, file, writeOk)
         rest == FilterSeq(cy.newPosts, PostIds \ SeqSet(cy.executedChallengeIds))
     IN /\ IF cy.executedChallengeIds # <<>>
           THEN /\ memory' = sv.memory
                /\ file' = sv.file
           ELSE UNCHANGED <<memory, file>>
        /\ cy' = [cy EXCEPT !.newPosts = rest, !.toEnrich = postsToEnrich(rest), !.ei = 1]
  /\ pc' = "enrich"
  /\ used' = Failed(used, cy.executedChallengeIds # <<>> /\ ~writeOk)
  /\ h' = [h EXCEPT !.challengesSaved = cy.executedChallengeIds # <<>> /\ writeOk]
  /\ UNCHANGED <<app, mode, run, proc, timers, running, cycles, result, now, suspended,
                 state>>

\* agent.ts:508-521  one getComments call of enrichPostsWithComments
EnrichOne(o) ==
  /\ pc = "enrich"
  /\ cy.ei <= Len(cy.toEnrich)
  /\ LET p == cy.toEnrich[cy.ei]
         r == Request("GET", suspended, o)
     IN /\ suspended' = r.susp
        /\ used' = Faulted(r, o)
        /\ h' = AfterCall(h, "getComments", p, "enrich", r)
        /\ cy' = [cy EXCEPT !.ei = @ + 1,
                            !.comments[p] = IF r.res = "ok" THEN CommentsOf(p) ELSE @]
  /\ UNCHANGED <<app, mode, run, proc, timers, running, cycles, result, now, state, file,
                 memory, pc>>

\* ------------------------------------------- heartbeat(): Decision Engine

\* agent.ts:247-256  validCommentIds: the ids of the comments fetched for
\* the posts handed to the Decision Engine
validCommentIds == UNION {cy.comments[p] : p \in SeqSet(cy.newPosts)}

\* A mutant of ActionsOf: the safe default keeps the n actions.
ActionsOfAny(k, n) == n

\* llm.ts:212-229  the length of decision.actions: the safe default has none,
\* a parsed or salvaged answer has the n it holds
ActionsOf(k, n) == IF k = "default" THEN 0 ELSE n

\* agent.ts:216-262  the Decision Engine is asked, then the suspension check
\* 7.5; n is the length of decision.actions
\* What decideFeedActions does with the Decision Engine's answer (k):
\*  "error"     the API call fails: null                         (llm.ts:234-237)
\*  "throws"    building the prompt throws (a fetched comment without author
\*              or content): the promise rejects                 (llm.ts:108-122)
\*  "json"      the answer parses                                (llm.ts:212)
\*  "salvaged"  the truncated answer parses after the salvage,
\*              shouldPost is forced to false                    (llm.ts:215-222)
\*  "default"   nothing parses: actions [], shouldPost false     (llm.ts:225-229)
\*  "badshape"  the answer parses but has no actions array
Decide(k, n, writeOk) ==
  /\ pc = "enrich"
  /\ cy.ei > Len(cy.toEnrich)
  /\ k = "throws" => \E p \in SeqSet(cy.newPosts) : cy.comments[p] # {}
  /\ LET hd == [h EXCEPT !.llmCalled = TRUE, !.llmPosts = SeqSet(cy.newPosts),
                         \* llm.ts:112-117  the fetched comments in the prompt
                         !.llmComments = IF k = "throws" THEN {} ELSE validCommentIds]
         mj == addJournalEntry(memory, [text |-> "suspendedCycle", social |-> FALSE],
                               ZeroStats)
         sv == saveMemory(mj, file, writeOk)
     IN IF k = "error"
        THEN /\ Return("false", "noDecision", hd)
             /\ UNCHANGED <<memory, file, cy>>
        ELSE IF k = "throws"
        THEN /\ Caught(hd)
             /\ UNCHANGED <<memory, file, cy>>
        ELSE IF suspended
        THEN /\ memory' = sv.memory
             /\ file' = sv.file
             /\ Return("true", "suspendedBeforeActions", Journalled(hd, memory, mj))
             /\ UNCHANGED cy
        ELSE IF k = "badshape"
        THEN /\ Caught(hd)
             /\ UNCHANGED <<memory, file, cy>>
        ELSE /\ pc' = "queue"
             /\ cy' = [cy EXCEPT !.kind = k,
                                 !.left = ActionsOf(k, n)]
             /\ h' = hd
             /\ UNCHANGED <<memory, file, result, running>>
  /\ used' = Failed(Failed(IF pc' = "queue" THEN Asked(used, cy'.left) ELSE used,
                          k \in {"error", "throws"} \/ (k = "badshape" /\ ~suspended)),
                   k \notin {"error", "throws"} /\ suspended /\ ~writeOk)
  /\ WithinRun(used')
  /\ UNCHANGED <<app, mode, run, proc, timers, cycles, now, suspended, state>>

\* ---------------------------------------------- heartbeat(): action queue
\* The actions a Decision Engine answer can hold: any type, any post id
\* (also one the feed never had), with or without comment text, with any
\* parentCommentId (also none, also one no post has). Fields a branch does
\* not read are left at one value.
ActionUniverse ==
  [type : {"upvote"}, postId : PostIds \cup {"ghost"},
   hasComment : {FALSE}, parentCommentId : {""}]
  \cup [type : {"comment"}, postId : PostIds \cup {"ghost"},
        hasComment : BOOLEAN, parentCommentId : {""}]
  \cup [type : {"reply"}, postId : PostIds \cup {"ghost"},
        hasComment : {TRUE}, parentCommentId : {"k1", "k2"} \cup {"", "ghostc"}]
  \cup [type : {"reply"}, postId : {"n1"},
        hasComment : {FALSE}, parentCommentId : {"k1"}]
  \cup [type : {"skip"}, postId : {"n1"},
        hasComment : {FALSE}, parentCommentId : {""}]

\* A mutant of PostIdAccepted: the check of agent.ts:259 is missing.
PostIdAcceptedAlways(id) == TRUE

\* agent.ts:259  validPostIds.has(action.postId)
PostIdAccepted(id) == id \in SeqSet(cy.newPosts)

\* A mutant of UnderCycleLimit: the per-cycle counters are not checked.
UnderCycleLimitAlways(count, limit) == TRUE

\* agent.ts:268, 293, 327  the action is skipped once the cycle's counter
\* has reached its limit
UnderCycleLimit(count, limit) == count < limit

\* agent.ts:258-365  one iteration of the loop over decision.actions, up to
\* its randomSleep; mu is cycleRandomness.maxUpvotes (drawn at agent.ts:204,
\* first read at agent.ts:268)
QueueAction(a, mu, o) ==
  /\ pc = "queue"
  /\ cy.left > 0
  /\ (cy.maxUpvotes # 0 => mu = cy.maxUpvotes)
  /\ LET r == Request("POST", suspended, o)
         ok == Succeeded(r)
         author == Author(a.postId)
         readsMax == PostIdAccepted(a.postId) /\ a.type = "upvote"
         maxUpvotes == IF cy.maxUpvotes = 0 /\ readsMax THEN mu ELSE cy.maxUpvotes
         doUpvote == /\ a.type = "upvote"
                     /\ UnderCycleLimit(cy.upvotesThisCycle, maxUpvotes)
         doComment == /\ a.type = "comment" /\ a.hasComment
                      /\ UnderCycleLimit(cy.commentsThisCycle, maxCommentsPerCycle)
                      /\ UnderDailyCap(state.commentsToday)
         doReply == /\ a.type = "reply" /\ a.hasComment /\ a.parentCommentId # ""
                    /\ UnderCycleLimit(cy.commentsThisCycle, maxCommentsPerCycle)
                    /\ UnderDailyCap(state.commentsToday)
                    /\ a.parentCommentId \in validCommentIds
                    /\ ~hasRepliedToComment(memory, a.parentCommentId)
     IN IF ~PostIdAccepted(a.postId) \/ ~(doUpvote \/ doComment \/ doReply)
        THEN \* rejected, or nothing to do: continue
             /\ cy' = [cy EXCEPT !.left = @ - 1, !.maxUpvotes = maxUpvotes]
             /\ UNCHANGED <<suspended, state, memory, pc, h, used>>
        ELSE /\ suspended' = r.susp
             /\ used' = Faulted(r, o)
             /\ h' = AfterCall(h, IF doUpvote THEN "upvotePost"
                                  ELSE IF doComment THEN "createComment"
                                  ELSE "createReply",
                               a.postId, "queue", r)
             /\ IF a.type \in {"upvote", "comment"} /\ r.susp
                   \* agent.ts:273-276, 305-308: after the client call of an
                   \* upvote or a comment the loop is left if the client is
                   \* suspended; the reply branch (348-349) has no such check
                THEN /\ pc' = "post"
                     /\ cy' = [cy EXCEPT !.left = @ - 1, !.maxUpvotes = maxUpvotes]
                     /\ UNCHANGED <<state, memory>>
                ELSE /\ pc' = "qsleep"
                     /\ cy' = [cy EXCEPT
                                 !.left = @ - 1,
                                 !.maxUpvotes = maxUpvotes,
                                 !.upvotesThisCycle = IF ok /\ doUpvote THEN @ + 1 ELSE @,
                                 !.commentsThisCycle = IF ok /\ ~doUpvote THEN @ + 1 ELSE @]
                     /\ state' = [state EXCEPT
                                    !.commentsToday = IF ok /\ ~doUpvote THEN @ + 1 ELSE @]
                     /\ memory' = IF ~ok THEN memory
                                  ELSE IF doReply
                                  THEN updateAgent(markInteracted(
                                         markCommentReplied(memory, a.parentCommentId),
                                         a.postId), author, now)
                                  ELSE updateAgent(markInteracted(memory, a.postId), author, now)
  /\ UNCHANGED <<app, mode, run, proc, timers, running, cycles, result, now, file>>

\* agent.ts:289, 322, 363  await randomSleep(...) after the action
QueueSleep ==
  /\ pc = "qsleep"
  /\ pc' = "queue"
  /\ h' = [h EXCEPT !.slept = TRUE]
  /\ UNCHANGED <<app, mode, run, proc, timers, running, cycles, result, now, suspended,
                 state, file, memory, cy, used>>

\* agent.ts:258  decision.actions is exhausted
QueueEnd ==
  /\ pc = "queue"
  /\ cy.left = 0
  /\ pc' = "post"
  /\ UNCHANGED <<app, mode, run, proc, timers, running, cycles, result, now, suspended,
                 state, file, memory, cy, h, used>>

\* ------------------------------------------- heartbeat(): post and follows
\* agent.ts:367-398; sp: what decision.shouldPost && decision.postIdea give
\* ("no", "yes", or "malformed": a postIdea without submolt, on which
\* agent.ts:381 throws)
CreatePost(sp, o) ==
  /\ pc = "post"
  /\ sp # "no" => used.asks < run.asks
  /\ LET r == Request("POST", suspended, o)
         wanted == cy.kind = "json" /\ sp # "no"
         allowed == /\ state.postsToday < maxPostsPerDay
                    /\ CooldownOver(now, state.lastPostTime)
     IN IF suspended \/ ~wanted \/ ~allowed
        THEN /\ pc' = "social"
             /\ UNCHANGED <<suspended, state, memory, cy, h, result, running, used>>
        ELSE IF sp = "malformed"
        THEN /\ Caught(h)
             /\ used' = Asked(used, 1)
             /\ UNCHANGED <<suspended, state, memory, cy>>
        ELSE /\ pc' = "social"
             /\ suspended' = r.susp
             /\ used' = Asked(Faulted(r, o), 1)
             /\ h' = AfterCall(h, "createPost", "-", "post", r)
             /\ state' = IF r.res = "ok"
                         THEN [state EXCEPT !.postsToday = @ + 1, !.lastPostTime = now]
                         ELSE state
             /\ cy' = [cy EXCEPT !.postsThisCycle = IF r.res = "ok" THEN @ + 1 ELSE @]
             /\ memory' = IF r.res = "ok" THEN addMyPost(memory, "mine") ELSE memory
             /\ UNCHANGED <<result, running>>
  /\ UNCHANGED <<app, mode, run, proc, timers, cycles, now, file>>

\* agent.ts:446  validAgentNamesSet
validAgentNames == {Author(p) : p \in SeqSet(cy.feed)}

\* agent.ts:400-410 and 439-486; sf is cycleRandomness.shouldFollow (drawn at
\* agent.ts:203, first read here)
\* What decideFollows gives handleSocialActions (d): "null" (the call failed),
\* "" (an empty agentsToFollow), or the first name of agentsToFollow.
SocialActions(sf, d, o) ==
  /\ pc = "social"
  /\ d \notin {"null", ""} => used.asks < run.asks
  /\ LET r == Request("POST", suspended, o)
         attempt == /\ ~suspended /\ sf /\ canFollowThisWeek(memory, now)
                    /\ d \in validAgentNames
                    /\ ~hasFollowed(memory, d)
     IN IF ~attempt
        THEN UNCHANGED <<suspended, memory, cy, h, used>>
        ELSE /\ suspended' = r.susp
             /\ used' = Asked(Faulted(r, o), 1)
             \* agent.ts:477  await randomSleep(2000, 5000)
             /\ h' = [AfterCall(h, "follow", d, "social", r) EXCEPT !.slept = TRUE]
             /\ memory' = IF r.res = "ok" THEN markFollowed(memory, d, now) ELSE memory
             /\ cy' = [cy EXCEPT !.followsDone = IF r.res = "ok" THEN @ + 1 ELSE @]
  /\ pc' = "persist"
  /\ UNCHANGED <<app, mode, run, proc, timers, running, cycles, result, now, state, file>>

\* agent.ts:412-430
Persist(writeOk) ==
  /\ pc = "persist"
  /\ LET journalSummary == IF cy.kind = "default" THEN "parseError" ELSE "decision"
         fullSummary == [text |-> journalSummary, social |-> cy.followsDone > 0]
         mj == addJournalEntry(memory, fullSummary,
                               [postsCreated |-> cy.postsThisCycle,
                                commentsCreated |-> cy.commentsThisCycle,
                                upvotesGiven |-> cy.upvotesThisCycle])
         sv == saveMemory(mj, file, writeOk)
     IN /\ memory' = sv.memory
        /\ file' = sv.file
        /\ Return("false", "completed", Journalled(h, memory, mj))
  /\ used' = Failed(used, ~writeOk)
  /\ UNCHANGED <<app, mode, run, proc, timers, cycles, now, suspended, state, cy>>

\* ------------------------------------------------------------- scheduler
\* A mutant of HeartbeatResolved: the call is not awaited.
HeartbeatNotAwaited(p) == TRUE

\* index.ts:36, 52, 59  `await heartbeat()`: the continuation runs once the
\* promise has settled
HeartbeatResolved(p) == p = "done"

\* A mutant of scheduleNextHeartbeat: no timer while suspended.
scheduleNextHeartbeatUnlessSuspended(t, wasSuspended) ==
  IF wasSuspended = "true" THEN t ELSE t + 1

\* index.ts:22-39  scheduleNextHeartbeat arms one timer, whatever the value
scheduleNextHeartbeat(t, wasSuspended) == t + 1

\* index.ts:41-59  main() runs the first heartbeat at once
MainStart(dateChanged, readOk) ==
  /\ proc = "boot"
  /\ proc' = "mainAwait"
  /\ BeginHeartbeat(dateChanged, readOk)
  /\ UNCHANGED <<app, mode, run, timers, now>>

\* index.ts:34-36  the timer fires and its callback calls heartbeat()
TimerFire(dt, dateChanged, readOk) ==
  /\ timers > 0
  /\ cycles < run.cycles
  /\ dt \in (IF run.interval = "none" THEN ShortAdvances ELSE AdvanceChoices)
  /\ timers' = timers - 1
  /\ proc' = "timerAwait"
  /\ now' = now + dt
  /\ BeginHeartbeat(dateChanged, readOk)
  /\ UNCHANGED <<app, mode, run>>

\* index.ts:37, 52-54, 59-62, 75-78  what follows `await heartbeat()`: exit
\* in --once mode, else scheduleNextHeartbeat; a rejection ends the process
AfterHeartbeat(isOnce) ==
  /\ proc \in {"mainAwait", "timerAwait"}
  /\ HeartbeatResolved(pc)
  /\ mode' = IF proc = "mainAwait" THEN isOnce ELSE mode
  /\ pc' = IF pc = "done" THEN "idle" ELSE pc
  \* the locals of the settled heartbeat() are gone
  /\ IF pc = "done"
     THEN /\ cy' = FreshLocals
          /\ memory' = createEmptyMemory
          /\ h' = FreshHistory
     ELSE UNCHANGED <<cy, memory, h>>
  /\ IF result = "rejected" \/ (isOnce = "once" /\ proc = "mainAwait")
     THEN /\ proc' = "exited"
          /\ UNCHANGED timers
     ELSE /\ proc' = "waiting"
          /\ timers' = scheduleNextHeartbeat(timers, result)
  /\ UNCHANGED <<running, cycles, result, now, suspended, state, file, used, run, app>>

\* The steps of heartbeat() after its first (agent.ts:74-430).
HeartbeatSteps ==
  \/ \E o \in Answers, w \in BOOLEAN : GetMe(o, w)
  \/ \E o \in Answers \cup {"pending"} : GetStatus(o)
  \/ \E o \in Answers, f \in Feeds : GetFeed(o, f)
  \/ ChallengeSkip
  \/ \E o \in Answers : ChallengeAct(o)
  \/ ChallengeFinish
  \/ \E w \in DiskAnswers : ChallengesDone(w)
  \/ \E o \in Answers : EnrichOne(o)
  \/ \E k \in {"error", "throws", "json", "salvaged", "default", "badshape"}, n \in 0..(run.asks - used.asks), w \in BOOLEAN : Decide(k, n, w)
  \/ \E a \in ActionUniverse, mu \in {2, 3, 4}, o \in Answers : QueueAction(a, mu, o)
  \/ QueueSleep
  \/ QueueEnd
  \/ \E sp \in {"no", "yes", "malformed"}, o \in Answers : CreatePost(sp, o)
  \/ \E sf \in BOOLEAN, d \in (Agents \cup {"null", "", "ghost"}), o \in Answers : SocialActions(sf, d, o)
  \/ \E w \in DiskAnswers : Persist(w)

\* index.ts:34-38  the timer callback and what follows its heartbeat()
TimerSteps ==
  \/ \E dt \in AdvanceChoices \cup ShortAdvances, dc \in BOOLEAN, rd \in DiskAnswers :
       TimerFire(dt, dc, rd)
  \/ \E m \in {"once", "scheduled"} : AfterHeartbeat(m)

Next ==
  \/ \E dc \in BOOLEAN, rd \in DiskAnswers : MainStart(dc, rd)
  \/ TimerSteps
  \/ HeartbeatSteps

Spec == Init /\ [][Next]_vars

\* The event loop runs every continuation and timer that is ready, and every
\* awaited call of the platform and of the Decision Engine settles.
FairSpec == Spec /\ WF_vars(Next)

\* ------------------------------------------------------------------ claims

\* C1: every upvote, comment and reply heartbeat() hands to the client targets
\* a post id of the cycle's feed fetch, and every follow targets the author of
\* a post of that fetch, in the challenge phase as in the action queue and
\* the social step.
C1_TargetsComeFromTheFeed ==
  /\ h.lastCall.op \in {"upvotePost", "createComment", "createReply"} => h.lastCall.target \in SeqSet(cy.feed)
  /\ h.lastCall.op = "follow" => h.lastCall.target \in validAgentNames

\* A reply proposed by the Decision Engine has been sent in a cycle whose
\* feed holds a post the cycle does not offer to it.
C1_Witness ==
  /\ pc = "qsleep"
  /\ h.lastCall.op = "createReply"
  /\ h.lastCall.sent
  /\ SeqSet(cy.newPosts) # SeqSet(cy.feed)

\* C2: once the suspension flag is set it stays set, every later write call
\* of the client returns null without a network request, and GET calls are
\* still sent.
C2_NoWriteOnceSuspended ==
  /\ [][suspended => suspended']_vars
  /\ [](/\ (h.lastCall.op \in WriteOps /\ h.lastCall.suspBefore)
             => (~h.lastCall.sent /\ h.lastCall.res = "null")
        /\ (h.lastCall.op \notin WriteOps \cup {"none"} /\ h.lastCall.suspBefore)
             => h.lastCall.sent
        /\ (cycles > 0 /\ suspended /\ h.exit = "cachedSuspended")
             => h.lastCall = NoCall)

\* A write has been asked of the suspended client.
C2_Witness ==
  /\ h.lastCall.op \in WriteOps
  /\ h.lastCall.suspBefore
  /\ ~h.lastCall.sent

\* C3 (as claimed): when the Decision Engine is called every challenge
\* action is over, and no post findChallenges classifies as a challenge is in
\* the list passed to decideFeedActions.
C3_NoChallengeReachesTheDecisionEngine ==
  h.llmCalled => h.llmPosts \cap SeqSet(findChallenges(cy.feed)) = {}

LastJournalEntry == memory.journal[Len(memory.journal)]

NoCounts(e) == e.postsCreated = 0 /\ e.commentsCreated = 0 /\ e.upvotesGiven = 0

C6_QueueAbortsOnSuspension ==
  h.suspBy = "queue" => pc \notin {"qsleep", "queue"}

\* C7 (as claimed): a cycle in which the suspension is found in the
\* challenge phase or in the queue appends a journal entry and saves before
\* it returns.
C7_LateSuspensionIsJournalled ==
  (pc = "done" /\ h.suspBy \in {"challenge", "queue"})
    => (h.journalAdded >= 1 /\ h.journalSaved)

\* C8: heartbeat() settles with a boolean, whatever the client, the Decision
\* Engine and the state file do.
C8_HeartbeatResolvesToBoolean ==
  /\ result \in {"none", "true", "false"}
  /\ pc = "done" => result \in {"true", "false"}

\* A cycle threw inside heartbeat()'s try block; the catch of agent.ts:431-434
\* made it resolve to false.
C8_Witness ==
  /\ pc = "done"
  /\ h.exit = "exception"
  /\ result = "false"

\* C9: at most one heartbeat() is in progress, at most one timer is armed,
\* and no timer is armed while a heartbeat() is in progress.
C9_OneCycleAtATime ==
  /\ running <= 1
  /\ timers <= 1
  /\ timers + running <= 1

\* A scheduled run is in progress, and no timer is armed.
C9_Witness ==
  /\ proc = "timerAwait"
  /\ running = 1
  /\ timers = 0
  /\ cycles > 1

\* C10: in scheduled mode every heartbeat() that settles is followed by
\* scheduleNextHeartbeat, which arms exactly one timer whatever the result;
\* and the timer fires, so the next cycle starts (as long as the run has
\* cycles left).
C10_NextCycleAlwaysScheduled ==
  /\ [][(proc \in {"mainAwait", "timerAwait"} /\ proc' # proc /\ mode' = "scheduled")
          => (proc' = "waiting" /\ timers = 0 /\ timers' = 1)]_vars
  /\ [](proc = "waiting" => timers = 1)
  /\ \A n \in 1..MaxCycles :
       (pc = "done" /\ cycles = n /\ n < run.cycles)
         ~> (mode = "once" \/ cycles = n + 1)

\* A cycle has started from the timer armed after a cycle that ended
\* suspended.
C10_Witness ==
  /\ mode = "scheduled"
  /\ cycles = 2
  /\ suspended
  /\ pc = "done"
  /\ h.exit = "cachedSuspended"

\* ------------------------------------------------------ scheduler interval
\* index.ts:8-25 examined on its own: the base interval parsed from
\* config.heartbeatCron and the jittered delay scheduleNextHeartbeat hands to
\* setTimeout. Times are in milliseconds, as in the code.

\* A cron expression is the sequence of its fields; a field is the N of a
\* "*/N" in it, or NoStep for a field the pattern /\*\/(\d+)/ does not match.
NoStep == 0 - 1

\* index.ts:12-20  the first "*/N" of the expression gives N hours, and an
\* expression without one gives 4 hours
parseHeartbeatIntervalMs(cronExpr) ==
  LET matches == {i \in 1..Len(cronExpr) : cronExpr[i] # NoStep}
  IN IF matches # {}
     THEN cronExpr[CHOOSE i \in matches : \A j \in matches : i <= j] * HourMs
     ELSE 4 * HourMs

\* index.ts:9
SUSPENDED_INTERVAL_MS == 12 * HourMs

\* A mutant of actualInterval: the random term is not centred on zero.
actualIntervalUncentred(baseInterval, k) ==
  LET variance == (baseInterval * JitterTenths) \div 10
  IN baseInterval + (2 * k * variance) \div RandSteps

\* index.ts:24-25  baseInterval + (Math.random() * 2 - 1) * variance
actualInterval(baseInterval, k) ==
  LET variance == (baseInterval * JitterTenths) \div 10
  IN baseInterval + ((2 * k - RandSteps) * variance) \div RandSteps

\* The run of no cycle: the agent's own variables stay as they are at boot.
NoRun == [cycles |-> 0, faults |-> 0, asks |-> 0, interval |-> "hours"]

\* index.ts:8  the module is loaded: BASE_INTERVAL_MS is computed from the
\* configured expression
SchedInit ==
  /\ Boot
  /\ run = NoRun
  /\ \E c \in [1..MaxCronFields -> ({NoStep} \cup (0..MaxStep))] :
       app = [fn |-> "parseHeartbeatIntervalMs", cron |-> c,
              BASE_INTERVAL_MS |-> parseHeartbeatIntervalMs(c),
              suspended |-> FALSE, actualInterval |-> 0]

\* index.ts:22-25  scheduleNextHeartbeat(suspended) chooses the delay
ChooseInterval(wasSuspended, k) ==
  /\ app' = [app EXCEPT
       !.fn = "scheduleNextHeartbeat",
       !.suspended = wasSuspended,
       !.actualInterval =
          actualInterval(IF wasSuspended THEN SUSPENDED_INTERVAL_MS
                         ELSE app.BASE_INTERVAL_MS, k)]
  /\ UNCHANGED <<mode, proc, timers, running, cycles, result, now, suspended,
                 state, file, memory, pc, cy, h, used, run>>

SchedNext == \E ws \in BOOLEAN, k \in (0..(RandSteps - 1)) : ChooseInterval(ws, k)

SchedSpec == SchedInit /\ [][SchedNext]_vars

\* C11: the delay chosen by scheduleNextHeartbeat lies within
\* [0.7 B, 1.3 B], where B is 12 hours after a heartbeat that returned true
\* and otherwise N hours for the "*/N" of the configured expression, 4 hours
\* when it has none.
C11_DelayWithinJitter ==
  app.fn = "scheduleNextHeartbeat" =>
    LET steps == {i \in 1..Len(app.cron) : app.cron[i] # NoStep}
        hours == IF steps = {} THEN 4
                 ELSE app.cron[CHOOSE i \in steps : \A j \in steps : i <= j]
        B == IF app.suspended THEN 12 * HourMs ELSE hours * HourMs
    IN /\ 7 * B <= 10 * app.actualInterval
       /\ 10 * app.actualInterval <= 13 * B

\* A delay at the lower end of the suspended interval, and not the base
\* interval itself.
C11_Witness ==
  /\ app.fn = "scheduleNextHeartbeat"
  /\ app.suspended
  /\ app.BASE_INTERVAL_MS = 4 * HourMs
  /\ 10 * app.actualInterval = 7 * SUSPENDED_INTERVAL_MS

\* ------------------------------------------------- claims on the heartbeat
\* C12: a cycle that starts after the account was marked suspended asks the
\* platform for the account again (so that the flag can be cleared once the
\* platform no longer reports the suspension).
C12_SuspensionIsRechecked ==
  [][(suspended /\ cycles' = cycles + 1) => pc' = "getMe"]_vars

\* C13: a reply is sent only if its parentCommentId is among the comments
\* fetched for the post named by its postId. (A reply that succeeded has just
\* recorded its parentCommentId as the last replied comment.)
C13_ReplyParentBelongsToPost ==
  (pc = "qsleep" /\ h.lastCall.op = "createReply" /\ h.lastCall.res = "ok")
    => memory.interactedComments[Len(memory.interactedComments)]
         \in cy.comments[h.lastCall.target]

\* C14: no upvote or comment of the Decision Engine is sent for a post that
\* is in memory.interactedPosts when it is sent, and no reply for a comment
\* that is in memory.interactedComments (a reply that succeeded records a
\* comment that was not recorded before).
C14_NoActionOnInteractedTarget ==
  [][(pc = "queue" /\ pc' # "queue" /\ cy'.left = cy.left - 1 /\ h'.lastCall.sent)
       => /\ h'.lastCall.op \in {"upvotePost", "createComment"}
               => ~hasInteracted(memory, h'.lastCall.target)
          /\ (h'.lastCall.op = "createReply" /\ h'.lastCall.res = "ok")
               => Len(memory'.interactedComments) = Len(memory.interactedComments) + 1
    ]_vars

DayStates ==
  { [postsToday |-> maxPostsPerDay - 1, commentsToday |-> DailyCommentCap - 2,
     lastPostTime |-> SevenDays],
    [postsToday |-> maxPostsPerDay - 1, commentsToday |-> DailyCommentCap - 1,
     lastPostTime |-> SevenDays],
    [postsToday |-> maxPostsPerDay, commentsToday |-> DailyCommentCap,
     lastPostTime |-> SevenDays] }

DayInit ==
  /\ mode = "scheduled"
  /\ proc = "waiting"
  /\ timers = 1
  /\ running = 0
  /\ cycles = 0
  /\ result = "false"
  /\ now = SevenDays
  /\ suspended = FALSE
  /\ state \in DayStates
  /\ file = [exists |-> TRUE,
             data |-> [createEmptyMemory EXCEPT !.interactedPosts = <<"c2">>]]
  /\ memory = createEmptyMemory
  /\ pc = "idle"
  /\ cy = FreshLocals
  /\ h = FreshHistory
  /\ used = [faults |-> 0, asks |-> 0]
  /\ run = [cycles |-> 1, faults |-> MaxFaults - 1, asks |-> MaxAsks,
            interval |-> "none"]
  /\ app = NoApp

\* main() has returned: only the timer drives the process.
DayNext == TimerSteps \/ HeartbeatSteps

DaySpec == DayInit /\ [][DayNext]_vars

CommentOps == {"createComment", "createReply"}

\* C16: between two daily resets state.commentsToday never exceeds 45 and
\* state.postsToday never exceeds config.maxPostsPerDay; every successful
\* comment, reply and challenge comment adds exactly one to commentsToday,
\* nothing else adds to it, and the counters go back to zero only at the
\* start of a cycle.
C16_DailyCountersWithinCaps ==
  /\ [](state.commentsToday <= DailyCommentCap /\ state.postsToday <= maxPostsPerDay)
  /\ [][/\ (pc = "queue" /\ pc' = "qsleep"
            /\ h'.lastCall.op \in CommentOps /\ h'.lastCall.res = "ok")
             => state'.commentsToday = state.commentsToday + 1
        /\ (pc = "challenge" /\ h'.lastCall # h.lastCall
            /\ h'.lastCall.op \in CommentOps /\ h'.lastCall.res = "ok")
             => state'.commentsToday = state.commentsToday + 1
        /\ state'.commentsToday > state.commentsToday
             => /\ state'.commentsToday = state.commentsToday + 1
                /\ h'.lastCall.op \in CommentOps /\ h'.lastCall.res = "ok"
        /\ (state'.commentsToday < state.commentsToday
            \/ state'.postsToday < state.postsToday)
             => /\ cycles' = cycles + 1
                /\ state'.commentsToday = 0 /\ state'.postsToday = 0
       ]_vars

\* A comment of this cycle has brought the day's comments to the cap, and a
\* post of this cycle the day's posts to theirs.
C16_Witness ==
  /\ state.commentsToday = DailyCommentCap /\ cy.commentsThisCycle >= 1
  /\ state.postsToday = maxPostsPerDay /\ cy.postsThisCycle = 1

\* C17: a createPost succeeds only if at least 30 minutes have passed since
\* the last createPost that succeeded (whose time state.lastPostTime holds),
\* and at most one post is created in a cycle.
C17_PostsThirtyMinutesApart ==
  /\ [](cy.postsThisCycle <= 1)
  /\ [][/\ (pc = "post" /\ h'.lastCall # h.lastCall
            /\ h'.lastCall.op = "createPost" /\ h'.lastCall.res = "ok")
             => state'.postsToday = state.postsToday + 1
        /\ state'.postsToday = state.postsToday + 1
             => /\ now - state.lastPostTime >= ThirtyMinutes
                /\ state'.lastPostTime = now
        /\ state'.lastPostTime # state.lastPostTime
             => state'.postsToday = state.postsToday + 1
       ]_vars

\* A post made exactly 30 minutes after the one before it.
C17_Witness ==
  /\ pc = "social"
  /\ cy.postsThisCycle = 1
  /\ state.lastPostTime = now
  /\ now = SevenDays + ThirtyMinutes

\* ------------------------------------------------------------ memory store
\* The memory store (part_003:1-431) examined on its own: entries are added
\* to a memory that is one entry short of every limit, and the memory is
\* saved and loaded in any order. Entries are numbered in the order they are
\* added.

\* part_003:61-70  LIMITS, for the collections that are arrays
OrderedLimits ==
  [myPosts |-> LimitMyPosts,
   interactedPosts |-> LimitInteractedPosts,
   interactedComments |-> LimitInteractedComments,
   journal |-> LimitJournal,
   followedAgents |-> LimitFollowedAgents,
   subscribedSubmolts |-> LimitSubscribedSubmolts,
   challengesExecuted |-> LimitChallengesExecuted]

OrderedCollections == DOMAIN OrderedLimits

\* A memory one entry short of each limit, its entries numbered from 1.
NearlyFullMemory ==
  [myPosts |-> [i \in 1..(LimitMyPosts - 1) |-> i],
   interactedPosts |-> [i \in 1..(LimitInteractedPosts - 1) |-> i],
   interactedComments |-> [i \in 1..(LimitInteractedComments - 1) |-> i],
   knownAgents |-> [a \in 1..(LimitKnownAgents - 1) |->
                      [interactionCount |-> 1, lastInteraction |-> a]],
   journal |-> [i \in 1..(LimitJournal - 1) |->
                  [summary |-> i, postsCreated |-> 0, commentsCreated |-> 0,
                   upvotesGiven |-> 0]],
   totalHeartbeats |-> LimitJournal - 1,
   followedAgents |-> [i \in 1..(LimitFollowedAgents - 1) |->
                         [name |-> i, followedAt |-> i]],
   subscribedSubmolts |-> [i \in 1..(LimitSubscribedSubmolts - 1) |-> i],
   challengesExecuted |-> [i \in 1..(LimitChallengesExecuted - 1) |->
                             [postId |-> i, actions |-> <<"upvote">>]]]

\* The variables of the agent, which the memory store does not touch.
AgentVars ==
  <<mode, proc, timers, running, cycles, result, now, suspended, state,
    pc, cy, h, used, run>>

\* The memory has been filled, and either saved as it is or never saved.
MemInit ==
  /\ mode = "unread" /\ proc = "boot" /\ timers = 0 /\ running = 0
  /\ cycles = 0 /\ result = "none" /\ now = ThirtyMinutes
  /\ suspended = FALSE
  /\ state = [postsToday |-> 0, commentsToday |-> 0, lastPostTime |-> 0]
  /\ pc = "idle" /\ cy = FreshLocals /\ h = FreshHistory
  /\ used = [faults |-> 0, asks |-> 0]
  /\ run = NoRun
  /\ memory = NearlyFullMemory
  /\ file \in {NoFile, [exists |-> TRUE, data |-> NearlyFullMemory]}
  /\ app = [fn |-> "none", next |-> LimitInteractedPosts, adds |-> 0,
            marked |-> 1..(LimitInteractedPosts - 1),
            persisted |-> IF file.exists THEN 1..(LimitInteractedPosts - 1) ELSE {},
            removed |-> 0]

\* markInteracted(memory, id) for an id never seen, or for the oldest id the
\* memory holds
MemMark(fresh) ==
  /\ fresh => app.adds < MaxAdds
  /\ ~fresh => memory.interactedPosts # <<>>
  /\ LET id == IF fresh THEN app.next ELSE memory.interactedPosts[1]
     IN /\ memory' = markInteracted(memory, id)
        /\ app' = [app EXCEPT !.fn = "markInteracted",
                              !.next = IF fresh THEN @ + 1 ELSE @,
                              !.adds = IF fresh THEN @ + 1 ELSE @,
                              !.marked = @ \cup {id},
                              !.removed = 0]
  /\ UNCHANGED <<file, AgentVars>>

MemAdd(fn) ==
  /\ app.adds < MaxAdds
  /\ LET n == app.next
     IN memory' =
          CASE fn = "addMyPost" -> addMyPost(memory, n)
            [] fn = "markCommentReplied" -> markCommentReplied(memory, n)
            [] fn = "addJournalEntry" -> addJournalEntry(memory, n, ZeroStats)
            [] fn = "updateAgent" ->
                 updateAgent(memory, n, n)
            [] fn = "markFollowed" -> markFollowed(memory, n, n)
            [] fn = "markSubscribed" -> markSubscribed(memory, n)
            [] OTHER -> recordChallengeExecution(memory, n, <<"upvote">>)
  /\ app' = [app EXCEPT !.fn = fn, !.next = @ + 1, !.adds = @ + 1, !.removed = 0]
  /\ UNCHANGED <<file, AgentVars>>

\* The entries the ordered collections of m hold.
EntryCount(m) ==
  Len(m.myPosts) + Len(m.interactedPosts) + Len(m.interactedComments)
  + Len(m.journal) + Len(m.followedAgents) + Len(m.subscribedSubmolts)
  + Len(m.challengesExecuted)

\* saveMemory(memory): the write succeeds or fails, or the memory directory
\* is missing (no file has been written yet) and cannot be created
MemSave(disk) ==
  /\ disk = "noDirectory" => ~file.exists
  /\ LET sv == IF disk = "noDirectory" THEN saveMemoryNoDirectory(memory, file)
               ELSE saveMemory(memory, file, disk = "ok")
     IN /\ memory' = sv.memory
        /\ file' = sv.file
        /\ app' = [app EXCEPT !.fn = "saveMemory",
                              !.persisted = IF disk = "ok" THEN app.marked ELSE @,
                              !.removed = EntryCount(memory) - EntryCount(sv.memory)]
  /\ UNCHANGED AgentVars

\* memory = loadMemory(): a new instance, read from the file, or empty when
\* there is no file or it cannot be read
MemLoad(readOk) ==
  /\ ~file.exists => readOk
  /\ memory' = loadMemory(file, readOk).memory
  /\ app' = [app EXCEPT !.fn = "loadMemory",
                        !.marked = IF file.exists /\ readOk THEN app.persisted ELSE {},
                        !.removed = 0]
  /\ UNCHANGED <<file, AgentVars>>

MemNext ==
  \/ \E fresh \in BOOLEAN : MemMark(fresh)
  \/ \E fn \in {"addMyPost", "markCommentReplied", "addJournalEntry",
                 "updateAgent", "markFollowed", "markSubscribed",
                 "recordChallengeExecution"} : MemAdd(fn)
  \/ \E disk \in {"ok", "writeFails", "noDirectory"} : MemSave(disk)
  \/ \E readOk \in BOOLEAN : MemLoad(readOk)

MemSpec == MemInit /\ [][MemNext]_vars

\* Every bounded collection of m is within its limit.
WithinLimits(m) ==
  /\ \A c \in OrderedCollections : Len(m[c]) <= OrderedLimits[c]
  /\ Cardinality(KnownNames(m.knownAgents)) <= LimitKnownAgents

\* C18: after every saveMemory call, whatever was added before it, every
\* bounded collection of the memory is within its limit (myPosts 50,
\* interactedPosts 500, interactedComments 200, journal 10, knownAgents 100,
\* followedAgents 50, subscribedSubmolts 20, challengesExecuted 50).
C18_WithinLimitsAfterSave ==
  app.fn = "saveMemory" => WithinLimits(memory)

\* C19: when saveMemory trims an ordered collection (myPosts,
\* interactedPosts, interactedComments, journal, followedAgents,
\* subscribedSubmolts), what it keeps is the most recently added entries in
\* their original order, and entries are dropped only down to the limit: an
\* entry goes only if at least limit entries were added after it.
C19_TrimKeepsNewestInOrder ==
  [][app'.fn = "saveMemory" =>
       \A c \in OrderedCollections \ {"challengesExecuted"} :
         LET old == memory[c]
             new == memory'[c]
         IN /\ Len(new) <= Len(old)
            /\ new = SubSeq(old, Len(old) - Len(new) + 1, Len(old))
            /\ Len(new) < Len(old) => Len(new) = OrderedLimits[c]]_vars

\* saveMemory has just trimmed the journal: its oldest entry is gone and the
\* newest one is the entry added last.
C19_Witness ==
  /\ app.fn = "saveMemory"
  /\ app.removed > 0
  /\ Len(memory.journal) = LimitJournal
  /\ memory.journal[1].summary > 1
  /\ memory.journal[LimitJournal].summary = app.next - 1

\* The ids hasInteracted(m, id) is true for: those m.interactedPosts includes.
Interacted(m) == {m.interactedPosts[i] : i \in 1..Len(m.interactedPosts)}

MarkOps == {"markInteracted", "markFollowed", "markCommentReplied", "markSubscribed"}

\* op(m, id), called at time t
ApplyMark(op, m, id, t) ==
  CASE op = "markInteracted" -> markInteracted(m, id)
    [] op = "markFollowed" -> markFollowed(m, id, t)
    [] op = "markCommentReplied" -> markCommentReplied(m, id)
    [] OTHER -> markSubscribed(m, id)

\* The query that goes with op: hasInteracted, hasFollowed,
\* hasRepliedToComment, isSubscribedToSubmolt
IsMarked(op, m, id) ==
  CASE op = "markInteracted" -> hasInteracted(m, id)
    [] op = "markFollowed" -> hasFollowed(m, id)
    [] op = "markCommentReplied" -> hasRepliedToComment(m, id)
    [] OTHER -> InSeq(id, m.subscribedSubmolts)

\* The variables the mark operations leave alone.
MarkFrozen ==
  <<mode, proc, timers, running, cycles, result, suspended, state, file,
    pc, cy, h, used, run>>

MarkInit ==
  /\ mode = "unread" /\ proc = "boot" /\ timers = 0 /\ running = 0
  /\ cycles = 0 /\ result = "none" /\ now = ThirtyMinutes
  /\ suspended = FALSE
  /\ state = [postsToday |-> 0, commentsToday |-> 0, lastPostTime |-> 0]
  /\ pc = "idle" /\ cy = FreshLocals /\ h = FreshHistory
  /\ used = [faults |-> 0, asks |-> 0]
  /\ run = NoRun
  /\ file = NoFile
  /\ memory = createEmptyMemory
  /\ app = [fn |-> "none", arg |-> 0, seen |-> FALSE, marks |-> 0]

\* op(memory, id), after dt minutes
MarkCall(op, id, dt) ==
  /\ app.marks < MaxMarks
  /\ now' = now + dt
  /\ memory' = ApplyMark(op, memory, id, now')
  /\ app' = [fn |-> op, arg |-> id, seen |-> IsMarked(op, memory, id),
             marks |-> app.marks + 1]
  /\ UNCHANGED MarkFrozen

MarkNext ==
  \E op \in MarkOps, id \in (1..MaxMarkIds), dt \in {0, CycleMinutes} : MarkCall(op, id, dt)

MarkSpec == MarkInit /\ [][MarkNext]_vars

\* No value occurs twice in s.
NoDuplicates(s) == \A i, j \in 1..Len(s) : s[i] = s[j] => i = j

\* C21: markInteracted, markFollowed, markCommentReplied and markSubscribed
\* are idempotent (a second call with the same argument, even at a later
\* time, leaves the memory as the first call left it), and no identifier
\* occurs twice in a list they maintain.
C21_MarksAreIdempotent ==
  /\ [][app'.fn \in MarkOps =>
          ApplyMark(app'.fn, memory', app'.arg, now' + CycleMinutes) = memory']_vars
  /\ [](/\ NoDuplicates(memory.interactedPosts)
        /\ NoDuplicates(memory.interactedComments)
        /\ NoDuplicates(memory.subscribedSubmolts)
        /\ NoDuplicates([i \in 1..Len(memory.followedAgents) |->
                           memory.followedAgents[i].name]))

\* markFollowed has just been called for an agent followed at an earlier
\* time, after another agent was followed too.
C21_Witness ==
  /\ app.fn = "markFollowed"
  /\ app.seen
  /\ Len(memory.followedAgents) = MaxMarkIds
  /\ \E i \in 1..Len(memory.followedAgents) :
       /\ memory.followedAgents[i].name = app.arg
       /\ memory.followedAgents[i].followedAt < now

C23_FollowsAreRationed ==
  /\ [](h.follows <= 1)
  /\ [][h'.follows = h.follows + 1 =>
          /\ ~hasFollowed(memory, h'.lastCall.target)
          /\ h'.lastCall.res = "ok" => canFollowThisWeek(memory, now)]_vars

\* A step in which heartbeat() sends an action of decision.actions to the
\* client, and one in which it sends the post of the decision.
QueueCallStep == pc = "queue" /\ pc' # "queue" /\ cy'.left = cy.left - 1
PostCallStep == pc = "post" /\ pc' = "social" /\ used'.asks = used.asks + 1

\* C24 as stated: when the Decision Engine's response is not valid JSON
\* (truncated, for example), no upvote, comment, reply or post of the
\* Decision Engine is executed in the cycle, and heartbeat() does not throw.
C24_MalformedMeansNoActions ==
  /\ [][cy.kind \in {"salvaged", "default"} => ~QueueCallStep /\ ~PostCallStep]_vars
  /\ []((pc = "done" /\ cy.kind \in {"salvaged", "default"}) => result \in {"true", "false"})

\* C24, amended: when the response is not valid JSON and the salvage cannot
\* repair it, no upvote, comment, reply or post of the Decision Engine is
\* executed; when the salvage repairs a truncated response, the actions it
\* holds are executed and only the post is left out; in both cases
\* heartbeat() does not throw.
C24_UnsalvagedMeansNoActions ==
  /\ [][/\ cy.kind = "default" => ~QueueCallStep
        /\ cy.kind \in {"salvaged", "default"} => ~PostCallStep]_vars
  /\ []((pc = "done" /\ cy.kind \in {"salvaged", "default"}) => result \in {"true", "false"})

\* A cycle whose Decision Engine response could not be parsed or salvaged
\* has completed with nothing done.
C24_Witness ==
  /\ pc = "done"
  /\ cy.kind = "default"
  /\ h.exit = "completed"
  /\ result = "false"

Piece(k, n, w) == [k |-> k, n |-> n, w |-> w]

InputPieces ==
  { Piece("system", 7, TRUE), Piece("role", 13, TRUE), Piece("entity", 6, FALSE),
    Piece("warn", 9, TRUE), Piece("word", 1, TRUE), Piece("word", LongRun, TRUE),
    Piece("space", 1, FALSE) }

\* content.length
RECURSIVE TextLength(_)
TextLength(s) == IF s = <<>> THEN 0 ELSE Head(s).n + TextLength(Tail(s))

\* The index at which piece i of s starts.
StartOf(s, i) == TextLength(SubSeq(s, 1, i - 1))

\* \b before piece i of s: the piece before it does not end in a word
\* character
BoundaryBefore(s, i) ==
  \/ i = 1
  \/ ~(s[i - 1].k \in {"word", "role", "warn"} \/ (s[i - 1].k = "cut" /\ s[i - 1].w))

\* Where pattern pat matches in s.
MatchesAt(pat, s, i) ==
  /\ s[i].k = pat
  /\ pat = "system" => BoundaryBefore(s, i)
  /\ pat = "warn" => BoundaryBefore(s, i) /\ (i = Len(s) \/ ~s[i + 1].w)

Matches(pat, s) == {i \in 1..Len(s) : MatchesAt(pat, s, i)}

\* The piece after the match at i: /\bsystem\s*:\s*/ takes the blanks that
\* follow the colon into the match.
RECURSIVE AfterMatch(_, _, _)
AfterMatch(pat, s, j) ==
  IF pat = "system" /\ j <= Len(s) /\ s[j].k = "space"
  THEN AfterMatch(pat, s, j + 1)
  ELSE j

\* sanitizer.ts:84  clean.replace(pattern, "[FILTERED]"), from piece i on
RECURSIVE ReplaceFrom(_, _, _)
ReplaceFrom(pat, s, i) ==
  IF i > Len(s) THEN <<>>
  ELSE IF MatchesAt(pat, s, i)
  THEN <<Piece("filtered", 10, FALSE)>> \o ReplaceFrom(pat, s, AfterMatch(pat, s, i + 1))
  ELSE <<s[i]>> \o ReplaceFrom(pat, s, i + 1)

\* sanitizer.ts:78-86  the loop over INJECTION_PATTERNS: r holds clean,
\* removedCount and warnings
RECURSIVE RemoveInjections(_, _)
RemoveInjections(patterns, r) ==
  IF patterns = <<>> THEN r
  ELSE LET pat == Head(patterns)
           matches == Matches(pat, r.clean)
       IN RemoveInjections(Tail(patterns),
            IF matches = {} THEN r
            ELSE [clean |-> ReplaceFrom(pat, r.clean, 1),
                  removedCount |-> r.removedCount + Cardinality(matches),
                  warnings |-> Append(r.warnings, <<"Removed injection pattern", pat>>)])

\* sanitizer.ts:90  pattern.test(clean) on a regular expression with the g
\* flag: the search starts at the lastIndex the object holds, a match leaves
\* lastIndex behind it, a failure leaves lastIndex at 0
RegExpTest(pat, s, lastIndex) ==
  LET found == {i \in Matches(pat, s) : StartOf(s, i) >= lastIndex}
      first == CHOOSE i \in found : \A j \in found : i <= j
  IN IF found = {} THEN [matched |-> FALSE, lastIndex |-> 0]
     ELSE [matched |-> TRUE, lastIndex |-> StartOf(s, first) + s[first].n]

\* clean.substring(0, room)
RECURSIVE Substring(_, _)
Substring(s, room) ==
  IF s = <<>> \/ room = 0 THEN <<>>
  ELSE IF Head(s).n <= room THEN <<Head(s)>> \o Substring(Tail(s), room - Head(s).n)
  ELSE <<Piece("cut", room, Head(s).w)>>

\* sanitizer.ts:71-113  sanitize(content), called when the regular expression
\* of WARNING_PATTERNS holds lastIndex; the result and the lastIndex left
sanitize(content, lastIndex) ==
  IF content = <<>>
  THEN [clean |-> <<>>, flagged |-> FALSE, warnings |-> <<>>, removedCount |-> 0,
        lastIndex |-> lastIndex]
  ELSE LET r == RemoveInjections(<<"system", "role", "entity">>,
                  [clean |-> content, removedCount |-> 0, warnings |-> <<>>])
           t == RegExpTest("warn", r.clean, lastIndex)
           warned == IF t.matched
                     THEN Append(r.warnings, <<"Suspicious pattern detected", "warn">>)
                     ELSE r.warnings
           long == TextLength(r.clean) > TruncateAt
       IN [clean |-> IF long THEN Substring(r.clean, TruncateAt) \o <<Piece("truncated", 12, FALSE)>>
                     ELSE r.clean,
           flagged |-> r.removedCount > 0 \/ warned # <<>>,
           warnings |-> IF long THEN Append(warned, <<"Content truncated", "5000">>)
                        ELSE warned,
           removedCount |-> r.removedCount,
           lastIndex |-> t.lastIndex]

\* The sanitizer examined on its own: sanitize is called with any text, or
\* with the clean text of the call before.
SanInit ==
  /\ mode = "unread" /\ proc = "boot" /\ timers = 0 /\ running = 0
  /\ cycles = 0 /\ result = "none" /\ now = ThirtyMinutes
  /\ suspended = FALSE
  /\ state = [postsToday |-> 0, commentsToday |-> 0, lastPostTime |-> 0]
  /\ pc = "idle" /\ cy = FreshLocals /\ h = FreshHistory
  /\ used = [faults |-> 0, asks |-> 0]
  /\ run = NoRun
  /\ file = NoFile
  /\ memory = createEmptyMemory
  /\ app = [fn |-> "none", content |-> <<>>, out |-> sanitize(<<>>, 0), calls |-> 0]

Sanitize(content, own) ==
  /\ own => app.calls > 0 /\ content = app.out.clean
  /\ app' = [fn |-> IF own THEN "sanitizeClean" ELSE "sanitize",
             content |-> content,
             out |-> sanitize(content, app.out.lastIndex),
             calls |-> 1]
  /\ UNCHANGED <<memory, file, now, MarkFrozen>>

SanNext ==
  \/ \E content \in (UNION {[1..n -> InputPieces] : n \in 0..MaxPieces}) : Sanitize(content, FALSE)
  \/ Sanitize(app.out.clean, TRUE)

SanSpec == SanInit /\ [][SanNext]_vars

\* C26: sanitize is idempotent on its own output: sanitizing the clean text
\* of a call gives that clean text back, also for texts longer than 5000
\* characters and for texts in which a redaction leaves the marker next to
\* other text.
C26_SanitizeIsIdempotent ==
  [][app'.fn = "sanitizeClean" => app'.out.clean = app.out.clean]_vars

\* C27: sanitize is deterministic and keeps no state between calls: a call
\* with the input of the call before returns the same clean text, flagged
\* value, warnings and removedCount.
C27_SanitizeIsDeterministic ==
  [][(app.calls > 0 /\ app'.content = app.content) =>
       /\ app'.out.clean = app.out.clean
       /\ app'.out.flagged = app.out.flagged
       /\ app'.out.warnings = app.out.warnings
       /\ app'.out.removedCount = app.out.removedCount]_vars

\* ------------------------------------------- challenge detector, on its own
\* What the regular expressions of detectChallenge can find in a text:
\* the named ones (challenge-detector.ts:36-49, 55, 70, 87), the keyword
\* tests /upvote/, /comment|reply|respond/, /comment|reply/, /follow/
\* (60-63, 75-76, 89), the three of the catch-all (113-115) and the one of
\* the extra boost (123).
Patterns ==
  {"agentConditional", "verificationKeywords", "canYouPattern", "onlyRealPattern",
   "directUpvote", "upvote", "directComment", "commentReplyRespond", "commentReply",
   "directFollow", "follow", "prove", "notJust", "words", "canActually"}

\* A text that matches a pattern matches the patterns it contains.
Consistent(t) ==
  /\ "directUpvote" \in t => "upvote" \in t
  /\ "directComment" \in t => "commentReplyRespond" \in t
  /\ "commentReply" \in t => "commentReplyRespond" \in t
  /\ "directFollow" \in t => "follow" \in t
  /\ "canActually" \in t => "notJust" \in t
  /\ "onlyRealPattern" \in t => t \cap {"upvote", "commentReply", "follow"} # {}

\* A text and an author (post.author?.name || "") for detectChallenge, or a
\* list of up to MaxListed different posts for findChallenges.
DetectorInputs ==
  {[fn |-> "input", of |-> "detectChallenge", text |-> t, author |-> a,
    posts |-> <<>>, out |-> <<>>] :
     t \in {u \in SUBSET Patterns : Consistent(u)}, a \in Agents \cup {""}}
  \cup
  {[fn |-> "input", of |-> "findChallenges", text |-> {}, author |-> "",
    posts |-> ps, out |-> <<>>] :
     ps \in {l \in UNION {[1..n -> DetectorPosts] : n \in 0..MaxListed} : NoDuplicates(l)}}

DetectorInit ==
  /\ mode = "unread" /\ proc = "boot" /\ timers = 0 /\ running = 0
  /\ cycles = 0 /\ result = "none" /\ now = ThirtyMinutes
  /\ suspended = FALSE
  /\ state = [postsToday |-> 0, commentsToday |-> 0, lastPostTime |-> 0]
  /\ pc = "idle" /\ cy = FreshLocals /\ h = FreshHistory
  /\ used = [faults |-> 0, asks |-> 0]
  /\ run = NoRun
  /\ file = NoFile
  /\ memory = createEmptyMemory
  /\ app \in DetectorInputs

\* detectChallenge(post)
DetectOne ==
  /\ app.fn = "input" /\ app.of = "detectChallenge"
  /\ app' = [app EXCEPT !.fn = "detectChallenge",
                        !.out = detectText(app.text, app.author, "p")]
  /\ UNCHANGED <<memory, file, now, MarkFrozen>>

\* findChallenges(posts)
FindAll ==
  /\ app.fn = "input" /\ app.of = "findChallenges"
  /\ app' = [app EXCEPT !.fn = "findChallenges", !.out = findChallenges(app.posts)]
  /\ UNCHANGED <<memory, file, now, MarkFrozen>>

DetectorNext == DetectOne \/ FindAll

DetectorSpec == DetectorInit /\ [][DetectorNext]_vars

\* challenge-detector.ts:73-77 and 89: the text asks for a comment, for a
\* follow
AsksForComment(t) ==
  \/ "directComment" \in t
  \/ "agentConditional" \in t /\ "commentReplyRespond" \in t
  \/ "verificationKeywords" \in t /\ "commentReply" \in t

AsksForFollow(t) ==
  "directFollow" \in t \/ ("agentConditional" \in t /\ "follow" \in t)

\* C28: for a post whose text has the direct "upvote this post" phrasing and
\* asks for no comment and no follow, detectChallenge returns a challenge
\* whose only required action is the upvote and whose confidence is between
\* 0.9 and 1.0, whoever the author is.
C28_DirectUpvoteIsDetected ==
  (/\ app.fn = "detectChallenge"
   /\ "directUpvote" \in app.text
   /\ ~AsksForComment(app.text) /\ ~AsksForFollow(app.text))
    => /\ app.out.found
       /\ app.out.requiredActions = <<"upvote">>
       /\ app.out.confidence >= 90 /\ app.out.confidence <= 100

\* A text with the direct phrasing and nothing else, written by an ordinary
\* agent, has been detected at confidence 0.95.
C28_Witness ==
  /\ app.fn = "detectChallenge"
  /\ app.author = "bob"
  /\ app.text = {"directUpvote", "upvote"}
  /\ app.out.found /\ app.out.confidence = 95

\* C29: in the list findChallenges returns, every challenge written by the
\* moderator account (the one detectChallenge gives the moderator boost)
\* comes before every challenge written by anyone else, and challenges of
\* the same moderator status are in non-increasing order of confidence.
C29_ModeratorFirstThenConfidence ==
  app.fn = "findChallenges" =>
    \A i, j \in 1..Len(app.out) :
      i < j =>
        LET a == detectChallenge(app.out[i])
            b == detectChallenge(app.out[j])
            aMod == IsFromModerator(a.postAuthor)
            bMod == IsFromModerator(b.postAuthor)
        IN /\ bMod => aMod
           /\ (aMod <=> bMod) => a.confidence >= b.confidence

\* ------------------------------------------------- platform client, on its own

\* MoltbookClient.request (moltbook-client.ts:55-115) with the answers of the
\* platform told apart: the HTTP status, or no response at all (status 0);
\* whether the body can be read, whether it parses as JSON, and whether its
\* text names a suspension.
Responses ==
  [status : {200, 201, 400, 401, 403, 429, 500}, readable : BOOLEAN, parsable : BOOLEAN,
   mentions : {"nothing", "suspended", "verification challenge"}]
  \cup {[status |-> 0, readable |-> FALSE, parsable |-> FALSE, mentions |-> "nothing"]}

\* response.ok
ResponseOk(r) == r.status >= 200 /\ r.status <= 299

\* moltbook-client.ts:70-110  the body of the try block: the value returned
\* or the fact that something was thrown, and the suspension flag afterwards
TryRequest(susp, r) ==
  IF r.status = 0  \* fetch() rejects: there is no response
  THEN [threw |-> TRUE, value |-> "null", susp |-> susp]
  ELSE IF r.status = 429
  THEN [threw |-> FALSE, value |-> "null", susp |-> susp]
  ELSE IF ~ResponseOk(r)
  THEN LET errorText == IF r.readable THEN r.mentions ELSE "nothing"
       IN [threw |-> FALSE, value |-> "null",
           susp |-> \/ susp
                    \/ (r.status \in {401, 403} /\ errorText # "nothing")]
  ELSE IF r.readable /\ r.parsable
  THEN [threw |-> FALSE, value |-> "payload", susp |-> susp]
  ELSE [threw |-> TRUE, value |-> "null", susp |-> susp]

\* A mutant of CatchRequest: what is thrown is not caught.
CatchNothing(t, susp) ==
  [settled |-> IF t.threw THEN "rejected" ELSE "resolved",
   value |-> t.value, susp |-> t.susp, sent |-> TRUE]

\* moltbook-client.ts:111-114  catch (err) { ...; return null; }
CatchRequest(t, susp) ==
  [settled |-> "resolved",
   value |-> IF t.threw THEN "null" ELSE t.value,
   susp |-> t.susp, sent |-> TRUE]

\* MoltbookClient.request(method, ...) when the platform answers r
request(method, susp, r) ==
  IF susp /\ method # "GET"
  THEN [settled |-> "resolved", value |-> "null", susp |-> susp, sent |-> FALSE]
  ELSE CatchRequest(TryRequest(susp, r), susp)

ClientInit ==
  /\ mode = "unread" /\ proc = "boot" /\ timers = 0 /\ running = 0
  /\ cycles = 0 /\ result = "none" /\ now = ThirtyMinutes
  /\ suspended = FALSE
  /\ state = [postsToday |-> 0, commentsToday |-> 0, lastPostTime |-> 0]
  /\ pc = "idle" /\ cy = FreshLocals /\ h = FreshHistory
  /\ used = [faults |-> 0, asks |-> 0]
  /\ run = NoRun
  /\ file = NoFile
  /\ memory = createEmptyMemory
  /\ app = [fn |-> "none", method |-> "GET", before |-> FALSE,
            response |-> [status |-> 0, readable |-> FALSE, parsable |-> FALSE,
                          mentions |-> "nothing"],
            out |-> [settled |-> "resolved", value |-> "null", susp |-> FALSE,
                     sent |-> FALSE]]

\* An operation of the client is called and the platform answers r.
ClientCall(method, r) ==
  /\ LET out == request(method, suspended, r)
     IN /\ suspended' = out.susp
        /\ app' = [fn |-> "request", method |-> method, before |-> suspended,
                   response |-> r, out |-> out]
  /\ UNCHANGED <<mode, proc, timers, running, cycles, result, now, state, file,
                 memory, pc, cy, h, used, run>>

ClientNext == \E method \in {"GET", "POST", "DELETE"}, r \in Responses : ClientCall(method, r)

ClientSpec == ClientInit /\ [][ClientNext]_vars

\* C30: every operation of the client resolves to the parsed payload of a
\* successful response or to null and never rejects, whatever the HTTP
\* status, also on a network error and on a body that does not parse; a 429
\* response gives null and leaves the suspension flag as it was.
C30_ClientNeverRejects ==
  app.fn = "request" =>
    /\ app.out.settled = "resolved"
    /\ app.out.value \in {"payload", "null"}
    /\ app.out.value = "payload" =>
         (ResponseOk(app.response) /\ app.response.parsable)
    /\ (app.out.sent /\ app.response.status = 429) =>
         (app.out.value = "null" /\ suspended = app.before)

\* A 429 response whose body speaks of a suspension has been answered with
\* null by a client that is not suspended, and the client still is not.
C30_Witness ==
  /\ app.fn = "request"
  /\ app.out.sent
  /\ app.response.status = 429
  /\ app.response.mentions = "suspended"
  /\ app.out.value = "null"
  /\ ~app.before /\ ~suspended

\* --------------------------------------- loading a state file, on its own
\* The fields of AgentMemory (memory.ts:43-57).
MemoryFields ==
  {"myPosts", "interactedPosts", "interactedComments", "knownAgents",
   "topicPerformance", "journal", "lastHeartbeat", "totalHeartbeats",
   "followedAgents", "subscribedSubmolts", "lastSubmoltCheck",
   "createdSubmolts", "lastSubmoltCreation"}

\* memory.ts:95-149  loadMemory on a state file that holds the fields present
\* (parsable: the file is JSON): for each field whether the memory returned
\* has the value of the file ("file"), the empty default ("default") or no
\* value ("undefined"). Whatever is thrown inside is caught and gives
\* createEmptyMemory().
loadMemoryFields(present, parsable) ==
  LET validated == {"myPosts", "interactedPosts"} \subseteq present
      defaulted == {"followedAgents", "interactedComments", "subscribedSubmolts",
                    "lastSubmoltCheck", "createdSubmolts", "lastSubmoltCreation"}
      \* memory.ts:133-139  Object.keys(memory.knownAgents), memory.journal.length
      logged == {"knownAgents", "journal"} \subseteq present
  IN [threw |-> FALSE,
      memory |-> IF parsable /\ validated /\ logged
                 THEN [f \in MemoryFields |->
                         IF f \in present THEN "file"
                         ELSE IF f \in defaulted THEN "default"
                         ELSE "undefined"]
                 ELSE [f \in MemoryFields |-> "default"]]

\* memory.ts:342-419  getMemorySummary: whether it throws on the memory m
\* (a property of undefined is read)
getMemorySummaryThrows(m) ==
  \E f \in {"journal", "myPosts", "topicPerformance", "followedAgents", "interactedPosts"} :
    m[f] = "undefined"

\* A state file with any of the fields, or one that is not JSON.
LoadInit ==
  /\ Boot
  /\ run = NoRun
  /\ \E present \in SUBSET MemoryFields, parsable \in BOOLEAN :
       /\ ~parsable => present = {}
       /\ app = [fn |-> "input", present |-> present, parsable |-> parsable,
                 threw |-> FALSE, memory |-> [f \in MemoryFields |-> "default"],
                 summaryThrew |-> FALSE]

\* agent.ts:62, 217  loadMemory() at the start of the cycle, and
\* getMemorySummary(memory) on what it returned
LoadAndSummarise ==
  /\ app.fn = "input"
  /\ LET ld == loadMemoryFields(app.present, app.parsable)
     IN app' = [app EXCEPT !.fn = "getMemorySummary",
                           !.threw = ld.threw,
                           !.memory = ld.memory,
                           !.summaryThrew = getMemorySummaryThrows(ld.memory)]
  /\ UNCHANGED <<mode, proc, timers, running, cycles, result, now, suspended,
                 state, file, memory, pc, cy, h, used, run>>

LoadSpec == LoadInit /\ [][LoadAndSummarise]_vars

\* C31: loadMemory never throws, and of a state file that is JSON and lacks
\* some fields it returns a memory that has every field of the file with the
\* file's value and every other field with its empty default, and
\* getMemorySummary does not throw on that memory.
C31_OldSchemaIsLoaded ==
  app.fn = "getMemorySummary" =>
    /\ ~app.threw
    /\ app.parsable =>
         /\ \A f \in MemoryFields :
              app.memory[f] = IF f \in app.present THEN "file" ELSE "default"
         /\ ~app.summaryThrew

\* C32: every post and every fetched comment whose text is in the prompt of
\* the Decision Engine has passed through sanitize before the Decision Engine
\* is called.
C32_PromptTextIsSanitized ==
  h.llmCalled => (h.llmPosts \cup h.llmComments) \subseteq h.sanitized

C34_RejectedActionAffectsOnlyItself ==
  /\ [][(\/ (pc = "queue" /\ pc' = "queue" /\ cy'.left = cy.left - 1)
          \/ (QueueCallStep /\ h'.lastCall.res = "null" /\ ~suspended'))
        => /\ memory' = memory
           /\ state' = state
           /\ cy'.upvotesThisCycle = cy.upvotesThisCycle
           /\ cy'.commentsThisCycle = cy.commentsThisCycle
           /\ cy'.postsThisCycle = cy.postsThisCycle
           /\ pc' \in {"queue", "qsleep"}]_vars
  /\ [](pc = "post" /\ cy.left > 0 => suspended)

\* The first action of the queue, an upvote, has failed at the platform
\* without a suspension: nothing is recorded, and the second action is still
\* to come.
C34_Witness ==
  /\ pc = "qsleep"
  /\ cy.left = 1
  /\ ~suspended
  /\ h.lastCall.op = "upvotePost"
  /\ h.lastCall.sent
  /\ h.lastCall.res = "null"
  /\ memory.interactedPosts = <<>>
  /\ cy.upvotesThisCycle = 0

\* C35: every challenge the challenge phase takes up is in
\* memory.interactedPosts once the phase is over, whether or not one of its
\* actions succeeded; an action is entered in executedActions only when its
\* call succeeded, and a challengesExecuted record is added for the challenge
\* only when executedActions is not empty.
C35_ChallengeMarkedWhateverItsOutcome ==
  /\ [](pc \in {"enrich", "queue", "qsleep", "post", "social", "persist"}
        => \A i \in 1..Len(cy.challenges) : hasInteracted(memory, cy.challenges[i]))
  /\ [][(pc = "challenge" /\ Len(cy'.executedActions) > Len(cy.executedActions))
        => /\ h'.lastCall.sent
           /\ h'.lastCall.res = "ok"
           /\ h'.lastCall # h.lastCall]_vars
  /\ [][(pc = "challenge" /\ Len(cy'.executedChallengeIds) > Len(cy.executedChallengeIds))
        => /\ hasInteracted(memory', cy.challenges[cy.ci])
           /\ Len(memory'.challengesExecuted) > Len(memory.challengesExecuted)
                => cy.executedActions # <<>>]_vars

\* The phase is over: a challenge whose two calls both failed is in
\* interactedPosts and has no challengesExecuted record.
C35_Witness ==
  /\ pc = "enrich"
  /\ Len(cy.executedChallengeIds) = 1
  /\ hasInteracted(memory, cy.executedChallengeIds[1])
  /\ memory.challengesExecuted = <<>>
  /\ h.lastCall.op = "createComment"
  /\ h.lastCall.target = cy.executedChallengeIds[1]
  /\ h.lastCall.sent
  /\ h.lastCall.res = "null"
  /\ used.faults = 2
  /\ ~suspended

\* C36: between any two consecutive state-changing calls of a cycle (upvote,
\* comment, reply, post, follow) a randomized delay is waited, also between
\* the last action of the queue and the post, and between the post and the
\* follow.
C36_DelayBetweenWrites == ~h.rushed

\* C37: heartbeat() returns true exactly when the suspension flag of the
\* client is set at the moment the cycle ends.
C37_ReturnsTrueIffSuspended ==
  pc = "done" => (result = "true" <=> suspended)

\* C38: once a suspension has been detected during the challenge phase, no
\* challenge of which no action had been attempted before is taken up: none
\* is added to memory.interactedPosts (and to executedChallengeIds) with no
\* action of it attempted.
C38_SuspensionAbortsChallengePhase ==
  [][(/\ pc = "challenge"
      /\ h.suspBy = "challenge"
      /\ Len(cy'.executedChallengeIds) > Len(cy.executedChallengeIds))
     => cy.ai > 1]_vars

\* C39: the journal entry a cycle appends has, as upvotesGiven,
\* commentsCreated and postsCreated, the numbers of upvote calls, of comment
\* and reply calls and of post calls that succeeded in the cycle, those of
\* the challenge phase included.
C39_JournalCountsWhatSucceeded ==
  (pc = "done" /\ h.journalAdded > 0) =>
    /\ LastJournalEntry.upvotesGiven = h.okUpvotes
    /\ LastJournalEntry.commentsCreated = h.okComments
    /\ LastJournalEntry.postsCreated = h.okPosts

====
